---------------------------- MODULE Spec2Model ----------------------------
(***************************************************************************)
(* Wayland windowing backend: the window-system orchestrator               *)
(* (CWinSystemWayland / CWinSystemWaylandEGLContext), the seat capability  *)
(* reconciliation (CSeatInputProcessor) and the output tracker (COutput).  *)
(*                                                                         *)
(* The registry binding (CConnection) is part of it as well.               *)
(*                                                                         *)
(* Several specifications share the module, each over its own variables:   *)
(*   Spec         the orchestrator: configure / ack / resize / fullscreen  *)
(*   SpecOutputs  the orchestrator under output hot-plug                   *)
(*   SpecSeat     seat capability events                                   *)
(*   SpecMode     wl_output mode events of one output                      *)
(*   SpecConn     the globals announced during the two startup round trips *)
(*   SpecTouch    wl_touch events of one seat                              *)
(*   SpecKeyboard wl_keyboard events of one seat and the key repeat thread *)
(*   SpecDecorator the states and sizes the window decorator is set to     *)
(*   SpecClicks   clicks on the borders of the decorated window            *)
(*   SpecCycle    configures that answer the set_fullscreen requests        *)
(*   SpecEvents   the event queue between the event thread and MessagePump *)
(*   SpecKeymap   digital key events in CKeymapHandler                     *)
(*   SpecFrames   frame submissions and their presentation feedback        *)
(*   SpecFullScreen fullscreen requests while the surface changes outputs  *)
(*   SpecPump     the event pump thread and the calls that start and stop it *)
(***************************************************************************)
EXTENDS Integers, Sequences, FiniteSets, TLC

VARIABLES
  win,      \* fields of CWinSystemWayland (and of its base class)
  shell,    \* the IShellSurface implementation and the requests it has sent
  egl,      \* CGLContextEGL: size attached to the wl_egl_window
  disp,     \* CDisplaySettings: the resolution table
  sched,    \* event thread position, graphics context lock, delegated message
  wlout,    \* compositor side of the wl_output globals and COutput::m_scale
  hist,     \* history variables (observations only, never read by an operation)
  seat,     \* CSeatInputProcessor: m_pointer / m_keyboard / m_touch
  outp,     \* one COutput: m_modes, m_currentMode, m_preferredMode
  conn,     \* CConnection: m_binds, the bound proxies, the startup phase
  touch,    \* CSeatInputProcessor: m_touchPoints and the touch events sent on
  kbd,      \* CSeatInputProcessor: keymap, key repeat timer and its thread
  deco,     \* CWindowDecorator: the state it was set to and its buffers
  pump,     \* CWinEventsWaylandThread and the thread that calls the window system
  queue,    \* CWinEvents: m_queue, its lock and the calls of MessagePump
  buttons,  \* CKeymapHandler: m_pressedButtons and m_lastButtonPress
  frames    \* CWinSystemWayland: m_surfaceSubmissions and the latency average

vars == <<win, shell, egl, disp, sched, wlout, hist, seat, outp, conn, touch,
          kbd, deco, pump, queue, buttons, frames>>
winVars == <<win, shell, egl, disp, sched, wlout, hist>>
\* the variables of the orchestrator, the seat capabilities and the output
coreVars == <<win, shell, egl, disp, sched, wlout, hist, seat, outp>>
\* the variables of the event queue, the keymap handler and the presentation
lateVars == <<queue, buttons, frames>>
\* the variables of the components around the orchestrator
compVars == <<conn, touch, kbd, deco, pump>>
\* the variables of the other components
moreVars == <<compVars, lateVars>>

-----------------------------------------------------------------------------
(* Bounds of the model *)

\* wl_output globals the compositor announces over the run (names 1..MaxOutputs)
MaxOutputs == 2
\* configure events the compositor sends after the initial one
MaxConfigures == 1
\* seat capability events, and instances created per capability
MaxCapEvents == 3
\* wl_output mode events of the tracked output
MaxModeEvents == 3
\* resolution switches the application requests on its own
MaxExternal == 1
\* highest version a compositor offers an interface at
MaxOffered == 3
\* number of globals announced during one round trip
MaxGlobals == 3
\* touch point ids the compositor uses
MaxTouchIds == 3
\* wl_touch events of the seat
MaxTouchEvents == 5
\* keymaps the compositor sends to the seat
MaxKeymaps == 1
\* decoration buffers the decorator creates over the run
MaxBuffers == 2
\* commits of one decoration buffer the compositor has not released
MaxCommits == 2
\* configure events the compositor sends in answer to set_fullscreen requests
MaxAnswers == 3
\* input events the event thread pushes
MaxEvents == 3
\* calls of MessagePump that are active at a time, one inside the other
MaxDepth == 2
\* ids of the buttons of the keymap handler; 0 is no button
MaxKeyId == 3
\* frames submitted with a presentation feedback
MaxFrames == 4
\* LATENCY_MOVING_AVERAGE_SIZE, WinSystemWayland.h line 208, is 30; the model
\* averages over fewer submissions
LATENCY_MOVING_AVERAGE_SIZE == 2

-----------------------------------------------------------------------------
(* Program constants *)

BORDER_WIDTH == 5
TOP_BAR_HEIGHT == 33
RESIZE_MAX_CORNER_DISTANCE == BORDER_WIDTH
BUTTONS_EDGE_DISTANCE == 6
BUTTON_SIZE == 21
RES_WINDOW == 15
RES_DESKTOP == 16

STATE_MAXIMIZED == "maximized"
STATE_FULLSCREEN == "fullscreen"
STATE_ACTIVATED == "activated"

CONFIGURE_RES_ID == "configure"
INTERNAL_RES_ID == "internal"

-----------------------------------------------------------------------------
(* Inputs the environment draws from *)

OutputNames == 1..MaxOutputs
NoOutput == 0
Scales == {1, 2}
\* sizes a configure event may carry; <<0, 0>> is "no preference"
ConfigureSizes == {<<0, 0>>, <<60, 100>>, <<80, 120>>}
\* windowed size stored in the settings when the program starts
StoredWindowSizes == {<<50, 57>>}
StateBitsets == {{STATE_ACTIVATED}, {STATE_FULLSCREEN, STATE_ACTIVATED},
                 {STATE_MAXIMIZED, STATE_ACTIVATED}}
\* refresh rate (Hz) of the single mode each output announces as current
RefreshOf(o) == IF o = 1 THEN 60 ELSE 50
ModeSizeOf(o) == IF o = 1 THEN <<80, 120>> ELSE <<60, 100>>

Max(S) == CHOOSE x \in S : \A y \in S : y <= x

-----------------------------------------------------------------------------
(* CSizeInt and CWindowDecorator *)

IsZero(size) == size[1] = 0 /\ size[2] = 0

DecorationSize == <<2 * BORDER_WIDTH, 2 * BORDER_WIDTH + TOP_BAR_HEIGHT>>

StateHasWindowDecorations(b, state) ==
  b.win.m_subcompositor /\ STATE_FULLSCREEN \notin state

\* the std::out_of_range thrown in place of a size; no CSizeInt is negative
OutOfRange == <<-1, -1>>

\* CSizeGen::CheckSet, called by the constructor CSizeGen(width, height)
CheckSet(width, height) ==
  IF width < 0 \/ height < 0 THEN OutOfRange ELSE <<width, height>>

\* size - DecorationSize() is CSizeGen::operator-, which constructs the result
CalculateMainSurfaceSize(b, size, state) ==
  IF StateHasWindowDecorations(b, state)
    THEN CheckSet(size[1] - DecorationSize[1], size[2] - DecorationSize[2])
    ELSE size

\* size + DecorationSize() is CSizeGen::operator+
CalculateFullSurfaceSize(b, size, state) ==
  IF StateHasWindowDecorations(b, state)
    THEN CheckSet(size[1] + DecorationSize[1], size[2] + DecorationSize[2])
    ELSE size


-----------------------------------------------------------------------------
(* The objects an orchestrator operation reads and writes, as one record.   *)
(* Every operation below maps such a record b to the record after the call. *)
(* A function of several statements is a chain of steps; the result of one  *)
(* step is bound (x \in {step}) before the next step reads it.              *)

Bundle ==
  [win |-> win, shell |-> shell, egl |-> egl, disp |-> disp,
   hist |-> [hist EXCEPT !.lastAck.fresh = FALSE]]

Only(S) == CHOOSE x \in S : TRUE

\* CDisplaySettings::ResolutionInfoSize / GetResolutionInfo: RES_WINDOW is the
\* entry below RES_DESKTOP; RES_DESKTOP and the custom entries are disp.list
ResolutionInfoSize(b) == RES_DESKTOP + Len(b.disp.list)

GetResolutionInfo(b, idx) ==
  IF idx = RES_WINDOW THEN b.disp.window ELSE b.disp.list[idx - RES_DESKTOP + 1]

ResolutionIndices(b) == {RES_WINDOW} \cup (RES_DESKTOP..(ResolutionInfoSize(b) - 1))

\* FindOutputByUserFriendlyName: the user-friendly name of an output is modelled
\* by its global name; only outputs of the ready map are found
FindOutputByUserFriendlyName(b, name) ==
  IF name \in b.win.m_outputs THEN name ELSE NoOutput

-----------------------------------------------------------------------------
(* IShellSurface (xdg_shell unstable v6) *)

ShellAckConfigure(b, serial) ==
  [b EXCEPT !.shell.acked[serial] = IF @ < 2 THEN @ + 1 ELSE @,
            !.hist.lastAck = [serial |-> serial, fresh |-> TRUE,
                              eglMatches |-> b.egl = <<b.win.m_nWidth, b.win.m_nHeight>>]]

\* CShellSurfaceXdgShellUnstableV6::SetFullScreen, lines 116-128; the call is
\* recorded with whether a set_fullscreen request was outstanding
ShellSetFullScreen(b, output) ==
  LET call == [called |-> TRUE, output |-> output,
               outstanding |-> b.shell.lastRequest.kind = "set_fullscreen",
               before |-> b.shell.lastRequest.output,
               sent |-> output # b.shell.m_currentOutput]
  IN  IF output # b.shell.m_currentOutput
        THEN [b EXCEPT !.shell.m_currentOutput = output,
                       !.shell.lastRequest = [kind |-> "set_fullscreen",
                                              output |-> output],
                       !.hist.shellCall = call]
        ELSE [b EXCEPT !.hist.shellCall = call]

ShellSetWindowed(b) ==
  [b EXCEPT !.shell.m_currentOutput = NoOutput,
            !.shell.lastRequest = [kind |-> "unset_fullscreen", output |-> NoOutput]]

-----------------------------------------------------------------------------
(* CWinSystemWayland *)

\* a surface size taken as the buffer size, with the scale left out
Unscaled(size, scale) == size

\* the buffer size of a surface size at a scale: CSizeInt{m_surfaceSize * m_scale}
Scaled(size, scale) == <<size[1] * scale, size[2] * scale>>

SetSize(b, size, state, sizeIncludesDecoration) ==
  LET surf == IF sizeIncludesDecoration
                THEN CalculateMainSurfaceSize(b, size, state) ELSE size
      conf == IF sizeIncludesDecoration
                THEN size ELSE CalculateFullSurfaceSize(b, size, state)
      newSize == Scaled(surf, b.win.m_scale)
  IN  [b |-> [b EXCEPT !.win.m_configuredSize = conf,
                       !.win.m_surfaceSize = surf,
                       !.win.m_nWidth = newSize[1],
                       !.win.m_nHeight = newSize[2]],
       changed |-> newSize[1] # b.win.m_nWidth \/ newSize[2] # b.win.m_nHeight]

\* CWinSystemWayland::AckConfigure with the acknowledgement left out
AckConfigureNever(b, serial) == b

AckConfigure(b, serial) ==
  IF serial # b.win.m_lastAckedSerial \/ ~b.win.m_firstSerialAcked
    THEN [ShellAckConfigure(b, serial) EXCEPT !.win.m_lastAckedSerial = serial,
                                              !.win.m_firstSerialAcked = TRUE]
    ELSE b

ApplyBufferScale(b, scale) == [b EXCEPT !.win.appliedBufferScale = scale]

\* lines 498-501: the loop starts at RES_DESKTOP, the RES_WINDOW entry keeps its id
ResetResolutionIds(b) ==
  [b EXCEPT !.disp.list = [i \in DOMAIN @ |-> [@[i] EXCEPT !.strId = ""]]]

\* line 489 with the size never binding
MustHonorSizeNever(b, fullScreen) == FALSE

MustHonorSize(b, fullScreen) ==
  \/ STATE_MAXIMIZED \in b.win.m_shellSurfaceState
  \/ STATE_FULLSCREEN \in b.win.m_shellSurfaceState
  \/ fullScreen

\* lines 491-494
OriginOf(res) ==
  IF res.strId = CONFIGURE_RES_ID THEN "configure"
  ELSE IF res.strId = INTERNAL_RES_ID THEN "internal"
  ELSE "external"

\* lines 505-552
SetFullScreenShell(b, fullScreen, res) ==
  IF fullScreen
    THEN IF OriginOf(res) = "external" \/ b.win.m_currentOutput # res.out
           THEN ShellSetFullScreen([b EXCEPT !.win.m_currentOutput = res.out],
                                   FindOutputByUserFriendlyName(b, res.out))
           ELSE b
    ELSE IF OriginOf(res) = "external" /\ STATE_FULLSCREEN \in b.win.m_shellSurfaceState
           THEN ShellSetWindowed(b)
           ELSE b

\* lines 554-559
SetFullScreenSize(b, res, mustHonorSize) ==
  IF OriginOf(res) = "external" /\ ~mustHonorSize
    THEN SetSize(b, res.size, b.win.m_shellSurfaceState, FALSE).b
    ELSE b

\* lines 589-595
SetFullScreenAck(b, res) ==
  IF OriginOf(res) = "configure"
    THEN AckConfigure([b EXCEPT !.win.m_shellSurfaceState =
                                  b.win.m_nextShellSurfaceState],
                      b.win.m_currentConfigureSerial)
    ELSE b

\* lines 566-596
SetFullScreenApply(b, res, mustHonorSize) ==
  IF OriginOf(res) # "external" \/ ~mustHonorSize
    THEN SetFullScreenAck(IF b.win.canSetBufferScale
                            THEN ApplyBufferScale(b, b.win.m_scale) ELSE b, res)
    ELSE b

\* lines 598-605; b is the record before the call, a the one after line 596
SetFullScreenReturn(b, a, fullScreen, res) ==
  [b |-> [a EXCEPT !.win.m_isInitialSetFullScreen = FALSE,
                   !.hist.lastCall =
                      [origin |-> OriginOf(res), fullScreen |-> fullScreen,
                       size |-> res.size,
                       stateBefore |-> b.win.m_shellSurfaceState,
                       surfaceBefore |-> b.win.m_surfaceSize,
                       surfaceAfter |-> a.win.m_surfaceSize,
                       sent |-> /\ a.shell.lastRequest # b.shell.lastRequest
                                /\ a.shell.lastRequest.kind = "set_fullscreen"],
                   !.hist.wishSince =
                      @ \/ /\ OriginOf(res) = "external" /\ ~fullScreen
                           /\ STATE_MAXIMIZED \notin b.win.m_shellSurfaceState
                           /\ STATE_FULLSCREEN \notin b.win.m_shellSurfaceState],
   ret |-> OriginOf(res) = "configure" \/ b.win.m_isInitialSetFullScreen]

\* CWinSystemWayland::SetFullScreen; res is the caller's copy of a table entry
SetFullScreen(b, fullScreen, res) ==
  Only({SetFullScreenReturn(b, b4, fullScreen, res) :
    b4 \in {SetFullScreenApply(b3, res, MustHonorSize(b, fullScreen)) :
      b3 \in {SetFullScreenSize(b2, res, MustHonorSize(b, fullScreen)) :
        b2 \in {SetFullScreenShell(b1, fullScreen, res) :
          b1 \in {ResetResolutionIds(b)}}}}})

\* CWinSystemWaylandEGLContext::SetFullScreen, lines 92-107: r is what the base
\* class returned
EGLResize(r) ==
  IF r.ret /\ r.b.egl # <<r.b.win.m_nWidth, r.b.win.m_nHeight>>
    THEN [r EXCEPT !.b.egl = <<r.b.win.m_nWidth, r.b.win.m_nHeight>>]
    ELSE r

EGLSetFullScreen(b, fullScreen, res) ==
  Only({EGLResize(r) : r \in {SetFullScreen(b, fullScreen, res)}})

\* CGraphicContext::SetVideoResolution on the main thread: full screen for the
\* entries from RES_DESKTOP on, the window system gets a copy of the entry
SetVideoResolutionInternal(b, idx) ==
  LET i == IF idx \in ResolutionIndices(b) THEN idx ELSE RES_DESKTOP
  IN  EGLSetFullScreen(b, i >= RES_DESKTOP, GetResolutionInfo(b, i)).b

FindMatchingCustomResolution(b, size, refreshRate) ==
  LET m == {i \in DOMAIN b.disp.list :
              b.disp.list[i].size = size /\ b.disp.list[i].rr = refreshRate}
  IN  IF m = {} THEN -1
      ELSE RES_DESKTOP + (CHOOSE i \in m : \A j \in m : i <= j) - 1

MarkResolution(b, idx, id) ==
  IF idx = RES_WINDOW THEN [b EXCEPT !.disp.window.strId = id]
  ELSE [b EXCEPT !.disp.list[idx - RES_DESKTOP + 1].strId = id]

\* lines 679-703 with a zero size taken as the size configured
ResetSurfaceSizeSetAsGiven(b, size, scale, fullScreen) ==
  SetSize([b EXCEPT !.win.m_scale = scale], size,
          b.win.m_nextShellSurfaceState, TRUE)

\* CWinSystemWayland::ResetSurfaceSize, lines 679-703
ResetSurfaceSizeSet(b, size, scale, fullScreen) ==
  SetSize([b EXCEPT !.win.m_scale = scale],
          IF IsZero(size)
            THEN IF fullScreen THEN b.win.m_configuredSize ELSE b.disp.window.size
            ELSE size,
          b.win.m_nextShellSurfaceState,
          ~(IsZero(size) /\ ~fullScreen))

\* lines 707-713
CurrentRefreshRate(b) ==
  IF b.win.m_surfaceOutputs = {} THEN b.win.m_fRefreshRate
  ELSE Max({RefreshOf(o) : o \in b.win.m_surfaceOutputs})

\* lines 725-747: the resolution to switch to, and the table holding it
ResetSurfaceSizeResolution(b) ==
  LET buf == <<b.win.m_nWidth, b.win.m_nHeight>>
      found == FindMatchingCustomResolution(b, buf, b.win.m_fRefreshRate)
  IN  IF ~b.win.m_bFullScreen
        THEN [b |-> [b EXCEPT !.disp.window.size = buf], res |-> RES_WINDOW]
        ELSE IF found # -1 THEN [b |-> b, res |-> found]
        ELSE [b |-> [b EXCEPT !.disp.list =
                       Append(@, [size |-> buf, rr |-> b.win.m_fRefreshRate,
                                  out |-> b.win.m_currentOutput, strId |-> ""])],
              res |-> ResolutionInfoSize(b)]

\* lines 721-755
ResetSurfaceSizeSwitch(b, refreshRate, fullScreen, fromConfigure) ==
  Only({[b |-> MarkResolution(x.b, x.res,
                 IF fromConfigure THEN CONFIGURE_RES_ID ELSE INTERNAL_RES_ID),
         changed |-> TRUE, res |-> x.res] :
    x \in {ResetSurfaceSizeResolution(
             [b EXCEPT !.win.m_fRefreshRate = refreshRate,
                       !.win.m_bFullScreen = fullScreen])}})

\* CWinSystemWayland::ResetSurfaceSize up to the point where the lock is released
\* and SetVideoResolution is called: res is the resolution to switch to
ResetSurfaceSize(b, size, scale, fullScreen, fromConfigure) ==
  Only({IF /\ CurrentRefreshRate(r.b) = r.b.win.m_fRefreshRate
           /\ scale = b.win.m_scale
           /\ ~r.changed
           /\ r.b.win.m_bFullScreen = fullScreen
          THEN [b |-> r.b, changed |-> FALSE, res |-> -1]
          ELSE ResetSurfaceSizeSwitch(r.b, CurrentRefreshRate(r.b),
                                      fullScreen, fromConfigure) :
    r \in {ResetSurfaceSizeSet(b, size, scale, fullScreen)}})

\* std::max_element over m_surfaceOutputs with OutputScaleComparer
MaxScale(b) == Max({wlout[o].scale : o \in b.win.m_surfaceOutputs})

\* CWinSystemWayland::UpdateBufferScale up to the call of SetVideoResolution
UpdateBufferScale(b) ==
  IF ~b.win.canSetBufferScale \/ b.win.m_surfaceOutputs = {}
    THEN [b |-> b, changed |-> FALSE, res |-> -1]
    ELSE ResetSurfaceSize(b, b.win.m_configuredSize, MaxScale(b),
                          b.win.m_bFullScreen, FALSE)

\* CWinSystemWayland::UpdateResolutions: the custom entries are dropped and
\* RES_DESKTOP is rebuilt from the current mode of the selected output
UpdateResolutions(b) ==
  LET byUser == FindOutputByUserFriendlyName(b, b.win.userMonitor)
      byCurrent == FindOutputByUserFriendlyName(b, b.win.m_currentOutput)
      output == IF byUser # NoOutput THEN byUser
                ELSE IF byCurrent # NoOutput THEN byCurrent
                ELSE CHOOSE o \in b.win.m_outputs : \A q \in b.win.m_outputs : o <= q
  IN  IF b.win.m_outputs = {} THEN [b EXCEPT !.disp.list = <<@[1]>>]
      ELSE [b EXCEPT !.disp.list = <<[size |-> ModeSizeOf(output),
                                      rr |-> RefreshOf(output),
                                      out |-> output, strId |-> ""]>>]

-----------------------------------------------------------------------------
(* Writing a bundle back *)

Commit(b) ==
  /\ win' = b.win
  /\ shell' = b.shell
  /\ egl' = b.egl
  /\ disp' = b.disp
  /\ hist' = b.hist

\* after a call r of ResetSurfaceSize on the event thread: either nothing changed
\* and the handler is finished, or the graphics context lock is released
\* (CSingleExit) and the event thread blocks in SetVideoResolution until the main
\* thread has run the switch to r.res
EventThreadAfter(r) ==
  IF r.changed
    THEN sched' = [sched EXCEPT !.pc = "SetVideoResolution", !.msg = r.res]
    ELSE sched' = sched

-----------------------------------------------------------------------------
(* Initial state: InitWindowSystem has returned, output 1 has been announced *)
(* and is ready, no window exists yet                                        *)

SerialRange == 0..(MaxConfigures + MaxAnswers + 2)

InitWin ==
  /\ \E sc \in Scales :
       wlout = [o \in OutputNames |->
                  IF o = 1 THEN [stage |-> "ready", scale |-> sc]
                  ELSE [stage |-> "unannounced", scale |-> 1]]
  /\ \E ws \in StoredWindowSizes, sub \in BOOLEAN :
       /\ win = [m_outputs |-> {1}, m_outputsInPreparation |-> {},
                 m_surfaceOutputs |-> {},
                 m_surfaceSize |-> <<0, 0>>, m_configuredSize |-> <<0, 0>>,
                 m_nWidth |-> 0, m_nHeight |-> 0, m_scale |-> 1,
                 m_shellSurfaceState |-> {}, m_nextShellSurfaceState |-> {},
                 m_currentConfigureSerial |-> 0, m_firstSerialAcked |-> FALSE,
                 m_lastAckedSerial |-> 0, m_isInitialSetFullScreen |-> TRUE,
                 m_currentOutput |-> NoOutput, m_bFullScreen |-> FALSE,
                 m_fRefreshRate |-> 0, m_subcompositor |-> sub,
                 canSetBufferScale |-> TRUE, appliedBufferScale |-> 1,
                 userMonitor |-> 1]
       /\ disp = [window |-> [size |-> ws, rr |-> 0, out |-> NoOutput, strId |-> ""],
                  list |-> <<[size |-> ModeSizeOf(1), rr |-> RefreshOf(1),
                              out |-> 1, strId |-> ""]>>]
  /\ shell = [m_currentOutput |-> NoOutput,
              lastRequest |-> [kind |-> "none", output |-> NoOutput],
              acked |-> [n \in SerialRange |-> 0]]
  /\ egl = <<0, 0>>
  /\ sched = [phase |-> "init", pc |-> "idle", lock |-> "none", msg |-> -1,
              nextSerial |-> 1, external |-> 0]
  /\ hist = [lastEvent |-> "none", lastOutput |-> NoOutput,
             lastAck |-> [serial |-> 0, fresh |-> FALSE, eglMatches |-> TRUE],
             lastCall |-> [origin |-> "none", fullScreen |-> FALSE, size |-> <<0, 0>>,
                           stateBefore |-> {}, surfaceBefore |-> <<0, 0>>,
                           surfaceAfter |-> <<0, 0>>, sent |-> FALSE],
             lastConfigure |-> [serial |-> 0, size |-> <<0, 0>>, state |-> {},
                                same |-> FALSE, changed |-> FALSE,
                                bufferBefore |-> <<0, 0>>, bufferAfter |-> <<0, 0>>,
                                eglBefore |-> <<0, 0>>,
                                configuredBefore |-> <<0, 0>>,
                                windowedBefore |-> <<0, 0>>,
                                configuredAfter |-> <<0, 0>>,
                                surfaceAfter |-> <<0, 0>>, answer |-> FALSE],
             chain |-> 0,
             shellCall |-> [called |-> FALSE, output |-> NoOutput,
                            outstanding |-> FALSE, before |-> NoOutput,
                            sent |-> FALSE],
             handled |-> {}, announcedSize |-> <<0, 0>>, wishSince |-> FALSE,
             overlap |-> {}, doneSeen |-> {1}]

-----------------------------------------------------------------------------
(* Window creation (main thread, before the event pump runs) *)

\* lines 235-242
CreateNewWindowSetSize(b, fullScreen) ==
  LET st == (IF fullScreen THEN {STATE_FULLSCREEN} ELSE {}) \cup {STATE_ACTIVATED}
  IN  SetSize([b EXCEPT !.win.m_shellSurfaceState = st],
              GetResolutionInfo(b, IF fullScreen THEN RES_DESKTOP ELSE RES_WINDOW).size,
              st, FALSE).b

\* lines 264-277
CreateNewWindowFullScreen(b, fullScreen, output) ==
  IF fullScreen /\ output # NoOutput
    THEN IF b.win.canSetBufferScale
           THEN ApplyBufferScale(
                  [ShellSetFullScreen(b, output) EXCEPT
                     !.win.m_scale = wlout[output].scale],
                  wlout[output].scale)
           ELSE ShellSetFullScreen(b, output)
    ELSE b

\* the initial OnConfigure handler, lines 253-262
InitialConfigure(b, serial, size, state) ==
  AckConfigure([(IF ~IsZero(size) THEN SetSize(b, size, state, TRUE).b ELSE b)
                  EXCEPT !.win.m_shellSurfaceState = state],
               serial)

\* line 285 and CWinSystemWaylandEGLContext::CreateNewWindow, line 62:
\* UpdateDesktopResolution writes the caller's table entry, the EGL window is
\* created with m_nWidth x m_nHeight
CreateNewWindowSurface(b, fullScreen) ==
  LET buf == <<b.win.m_nWidth, b.win.m_nHeight>>
  IN  IF fullScreen THEN [b EXCEPT !.disp.list[1].size = buf, !.egl = buf]
      ELSE [b EXCEPT !.disp.window.size = buf, !.egl = buf]

\* CWinSystemWaylandEGLContext::CreateNewWindow; the initial configure
\* (serial, size, state) arrives in the round trip of Initialize()
CreateNewWindow(fullScreen, size, state) ==
  /\ sched.phase = "init"
  /\ \E b1 \in {CreateNewWindowSetSize(Bundle, fullScreen)} :
     \E b2 \in {CreateNewWindowFullScreen(b1, fullScreen,
                  FindOutputByUserFriendlyName(b1, b1.win.userMonitor))} :
     \E b3 \in {InitialConfigure(b2, sched.nextSerial, size, state)} :
     \E b4 \in {CreateNewWindowSurface(b3, fullScreen)} :
       Commit([b4 EXCEPT !.hist.announcedSize = size,
                         !.hist.lastEvent = "create"])
  /\ sched' = [sched EXCEPT !.phase = "running", !.nextSerial = @ + 1]
  /\ UNCHANGED <<wlout, seat, outp, moreVars>>

-----------------------------------------------------------------------------
(* Event thread: protocol callbacks, dispatched one at a time *)

EventIdle == sched.phase = "running" /\ sched.pc = "idle" /\ sched.lock = "none"

\* observation for the history: the configure repeats the values in force, the
\* configured size (which is the size announced last), both records of the
\* fullscreen state, and the refresh rate of the outputs the surface is on
\* (the scale is not part of a configure)
SameAsCurrent(size, state) ==
  /\ size = win.m_configuredSize
  /\ size = hist.announcedSize
  /\ (STATE_FULLSCREEN \in state) = win.m_bFullScreen
  /\ (STATE_FULLSCREEN \in state) = (STATE_FULLSCREEN \in win.m_shellSurfaceState)
  /\ \/ win.m_surfaceOutputs = {}
     \/ Max({RefreshOf(o) : o \in win.m_surfaceOutputs}) = win.m_fRefreshRate

\* lines 624-637: r is what ResetSurfaceSize returned
HandleSurfaceConfigureAck(r, serial) ==
  IF r.changed THEN r.b
  ELSE AckConfigure([r.b EXCEPT !.win.m_shellSurfaceState =
                                  r.b.win.m_nextShellSurfaceState], serial)

\* CWinSystemWayland::HandleSurfaceConfigure, lines 617-639; answer says
\* whether the compositor sent the configure in answer to a set_fullscreen
SurfaceConfigured(serial, size, state, answer) ==
  /\ EventIdle
  /\ serial = sched.nextSerial
  /\ \E r \in {ResetSurfaceSize([Bundle EXCEPT !.win.m_currentConfigureSerial = serial,
                                               !.win.m_nextShellSurfaceState = state],
                                size, win.m_scale, STATE_FULLSCREEN \in state, TRUE)} :
     \E b1 \in {HandleSurfaceConfigureAck(r, serial)} :
       /\ Commit([b1 EXCEPT
            !.hist.lastEvent = "configure",
            !.hist.handled = @ \cup {serial},
            !.hist.lastConfigure =
               [serial |-> serial, size |-> size, state |-> state,
                same |-> SameAsCurrent(size, state),
                changed |-> r.changed,
                bufferBefore |-> <<win.m_nWidth, win.m_nHeight>>,
                bufferAfter |-> <<b1.win.m_nWidth, b1.win.m_nHeight>>,
                eglBefore |-> egl,
                configuredBefore |-> win.m_configuredSize,
                windowedBefore |-> disp.window.size,
                configuredAfter |-> b1.win.m_configuredSize,
                surfaceAfter |-> b1.win.m_surfaceSize,
                answer |-> answer],
            !.hist.announcedSize = IF IsZero(size) THEN @ ELSE size,
            !.hist.wishSince = IF IsZero(size)
                                 THEN @ \/ STATE_FULLSCREEN \notin state
                                 ELSE FALSE])
       /\ sched' = [sched EXCEPT !.nextSerial = @ + 1,
                                 !.pc = IF r.changed THEN "SetVideoResolution" ELSE @,
                                 !.msg = IF r.changed THEN r.res ELSE @]
  /\ UNCHANGED <<wlout, seat, outp, moreVars>>

\* a configure the compositor sends on its own
HandleSurfaceConfigure(serial, size, state) ==
  /\ serial <= MaxConfigures + 1
  /\ SurfaceConfigured(serial, size, state, FALSE)

\* the configure the compositor sends in answer to the set_fullscreen request
\* of the switch that has just run; the size is the compositor's choice
AnswerConfigure(size) ==
  /\ hist.lastEvent = "switch"
  /\ hist.lastCall.sent
  /\ sched.nextSerial <= MaxConfigures + MaxAnswers + 2
  /\ SurfaceConfigured(sched.nextSerial, size,
                       {STATE_FULLSCREEN, STATE_ACTIVATED}, TRUE)

\* m_surface.on_enter, lines 204-217
SurfaceEnter(o) ==
  /\ EventIdle
  /\ wlout[o].stage = "ready"
  /\ o \notin hist.overlap
  /\ \E b0 \in {[Bundle EXCEPT !.hist.overlap = @ \cup {o},
                               !.hist.lastEvent = "enter",
                               !.hist.lastOutput = o]} :
     \E r \in {IF o \in win.m_outputs
                 THEN UpdateBufferScale([b0 EXCEPT !.win.m_surfaceOutputs = @ \cup {o}])
                 ELSE [b |-> b0, changed |-> FALSE, res |-> -1]} :
       Commit(r.b) /\ EventThreadAfter(r)
  /\ UNCHANGED <<wlout, seat, outp, moreVars>>

\* m_surface.on_leave, lines 218-231
SurfaceLeave(o) ==
  /\ EventIdle
  /\ o \in hist.overlap
  /\ \E b0 \in {[Bundle EXCEPT !.hist.overlap = @ \ {o},
                               !.hist.lastEvent = "leave",
                               !.hist.lastOutput = o]} :
     \E r \in {IF o \in win.m_outputs
                 THEN UpdateBufferScale([b0 EXCEPT !.win.m_surfaceOutputs = @ \ {o}])
                 ELSE [b |-> b0, changed |-> FALSE, res |-> -1]} :
       Commit(r.b) /\ EventThreadAfter(r)
  /\ UNCHANGED <<wlout, seat, outp, moreVars>>

\* registry global: CWinSystemWayland::OnOutputAdded
OnOutputAdded(o) ==
  /\ EventIdle
  /\ wlout[o].stage = "unannounced"
  /\ \A q \in OutputNames : q < o => wlout[q].stage # "unannounced"
  /\ wlout' = [wlout EXCEPT ![o].stage = "announced"]
  /\ win' = [win EXCEPT !.m_outputsInPreparation = @ \cup {o}]
  /\ hist' = [hist EXCEPT !.lastEvent = "added", !.lastOutput = o,
                          !.lastAck.fresh = FALSE]
  /\ UNCHANGED <<shell, egl, disp, sched, seat, outp, moreVars>>

\* COutput: m_output.on_scale
OnOutputScale(o, sc) ==
  /\ EventIdle
  /\ wlout[o].stage \in {"announced", "ready"}
  /\ wlout[o].scale # sc
  /\ wlout' = [wlout EXCEPT ![o].scale = sc]
  /\ hist' = [hist EXCEPT !.lastEvent = "scale", !.lastOutput = o,
                          !.lastAck.fresh = FALSE]
  /\ UNCHANGED <<win, shell, egl, disp, sched, seat, outp, moreVars>>

\* lines 936-942 with the output left in m_outputsInPreparation
MoveToOutputsKeeping(b, o) ==
  IF o \in b.win.m_outputsInPreparation
    THEN [b EXCEPT !.win.m_outputs = @ \cup {o}]
    ELSE b

\* CWinSystemWayland::OnOutputDone, lines 931-942
MoveToOutputs(b, o) ==
  IF o \in b.win.m_outputsInPreparation
    THEN [b EXCEPT !.win.m_outputs = @ \cup {o},
                   !.win.m_outputsInPreparation = @ \ {o}]
    ELSE b

\* COutput m_output.on_done -> CWinSystemWayland::OnOutputDone
OnOutputDone(o) ==
  /\ EventIdle
  /\ wlout[o].stage \in {"announced", "ready"}
  /\ wlout' = [wlout EXCEPT ![o].stage = "ready"]
  /\ \E b1 \in {MoveToOutputs([Bundle EXCEPT !.hist.lastEvent = "done",
                                             !.hist.lastOutput = o,
                                             !.hist.doneSeen = @ \cup {o}], o)} :
       IF o \in win.m_outputsInPreparation /\ win.m_bFullScreen
         THEN \* lines 945-953: SetVideoResolution is called with the graphics
              \* context lock held; the rest of the handler runs after it
              /\ Commit(UpdateResolutions(b1))
              /\ sched' = [sched EXCEPT !.pc = "SetVideoResolution",
                                        !.lock = "event", !.msg = RES_DESKTOP]
         ELSE \E r \in {UpdateBufferScale(b1)} :
                Commit(r.b) /\ EventThreadAfter(r)
  /\ UNCHANGED <<seat, outp, moreVars>>

\* CWinSystemWayland::OnOutputRemoved
EraseOutput(b, o) ==
  [b EXCEPT !.win.m_outputsInPreparation = @ \ {o},
            !.win.m_outputs = @ \ {o}]

\* registry global_remove
OnOutputRemoved(o) ==
  /\ EventIdle
  /\ wlout[o].stage \in {"announced", "ready"}
  /\ wlout' = [wlout EXCEPT ![o].stage = "gone"]
  /\ Commit(EraseOutput([Bundle EXCEPT !.hist.lastEvent = "removed",
                                       !.hist.lastOutput = o], o))
  /\ UNCHANGED <<sched, seat, outp, moreVars>>

-----------------------------------------------------------------------------
(* Main thread *)

\* the application message TMSG_SETVIDEORESOLUTION sent by the event thread
ProcessSetVideoResolution ==
  /\ sched.pc = "SetVideoResolution"
  /\ sched.lock = "none"
  /\ \E b \in {SetVideoResolutionInternal(Bundle, sched.msg)} :
       Commit([b EXCEPT
         !.hist.lastEvent = "switch",
         \* observation: the set_fullscreen requests sent in a row, each by
         \* the switch for the answer to the one before
         !.hist.chain =
            IF ~b.hist.lastCall.sent THEN 0
            ELSE IF hist.lastEvent = "configure" /\ hist.lastConfigure.answer
                   THEN IF @ < MaxAnswers THEN @ + 1 ELSE @
                   ELSE 1])
  /\ sched' = [sched EXCEPT !.pc = "idle", !.msg = -1]
  /\ UNCHANGED <<wlout, seat, outp, moreVars>>

\* a resolution switch requested by the application itself
ExternalSetVideoResolution(idx) ==
  /\ sched.phase = "running"
  /\ sched.lock = "none"
  /\ sched.external < MaxExternal
  /\ idx \in ResolutionIndices(Bundle)
  /\ \E b \in {SetVideoResolutionInternal(Bundle, idx)} :
       Commit([b EXCEPT !.hist.lastEvent = "request"])
  /\ sched' = [sched EXCEPT !.external = @ + 1]
  /\ UNCHANGED <<wlout, seat, outp, moreVars>>

-----------------------------------------------------------------------------
(* CSeatInputProcessor: seat capabilities *)

\* wayland::seat_capability
CAP_POINTER == 1
CAP_KEYBOARD == 2
CAP_TOUCH == 4
Capabilities == {CAP_POINTER, CAP_KEYBOARD, CAP_TOUCH}
CapabilityMasks == 0..7

\* caps & cap
HasCapability(caps, cap) == (caps \div cap) % 2 = 1

\* a seat record s: inst[cap] is the protocol object held in m_pointer /
\* m_keyboard / m_touch (0: the proxy has no object, n > 0: the n-th object the
\* seat handed out for cap), created[cap] counts the calls of the instance
\* provider, released[cap] the calls of proxy_release, handlers[cap] is the
\* object the capability handler was last run for
InstanceProvider(s, cap) == s.created[cap] + 1

HandleCapabilityChangeAlways(s, caps, cap) ==
  IF HasCapability(caps, cap)
    THEN [s EXCEPT !.inst[cap] = InstanceProvider(s, cap),
                   !.created[cap] = @ + 1,
                   !.handlers[cap] = InstanceProvider(s, cap)]
    ELSE [s EXCEPT !.inst[cap] = 0, !.released[cap] = @ + 1]

HandleCapabilityChange(s, caps, cap) ==
  LET hasCapability == HasCapability(caps, cap)
  IN  IF (s.inst[cap] # 0) # hasCapability
        THEN IF hasCapability
               THEN [s EXCEPT !.inst[cap] = InstanceProvider(s, cap),
                              !.created[cap] = @ + 1,
                              !.handlers[cap] = InstanceProvider(s, cap)]
               ELSE [s EXCEPT !.inst[cap] = 0, !.released[cap] = @ + 1]
        ELSE s

InitSeat ==
  seat = [inst |-> [c \in Capabilities |-> 0],
          created |-> [c \in Capabilities |-> 0],
          released |-> [c \in Capabilities |-> 0],
          handlers |-> [c \in Capabilities |-> 0],
          caps |-> 0, events |-> 0]

\* m_seat.on_capabilities
HandleOnCapabilities(caps) ==
  /\ seat.events < MaxCapEvents
  /\ LET s1 == HandleCapabilityChange(seat, caps, CAP_POINTER)
         s2 == HandleCapabilityChange(s1, caps, CAP_KEYBOARD)
         s3 == HandleCapabilityChange(s2, caps, CAP_TOUCH)
     IN  seat' = [s3 EXCEPT !.caps = caps, !.events = @ + 1]
  /\ UNCHANGED <<win, shell, egl, disp, sched, wlout, hist, outp, moreVars>>

-----------------------------------------------------------------------------
(* COutput: modes of one output *)

\* wayland::output_mode
MODE_CURRENT == 1
MODE_PREFERRED == 2
ModeFlags == 0..3
\* (width, height, refresh in mHz)
Modes == {<<80, 120, 60000>>, <<60, 100, 50000>>}
\* m_modes.end()
ModesEnd == <<>>

HasFlag(flags, flag) == (flags \div flag) % 2 = 1

\* m_output.on_mode, with every mode taken as the current one
OnModeAlwaysCurrent(o, flags, mode) ==
  [o EXCEPT !.m_modes = @ \cup {mode},
            !.m_currentMode = mode,
            !.m_preferredMode = IF HasFlag(flags, MODE_PREFERRED) THEN mode ELSE @]

\* m_output.on_mode: an iterator into m_modes is the mode it points at
OnMode(o, flags, mode) ==
  [o EXCEPT !.m_modes = @ \cup {mode},
            !.m_currentMode = IF HasFlag(flags, MODE_CURRENT) THEN mode ELSE @,
            !.m_preferredMode = IF HasFlag(flags, MODE_PREFERRED) THEN mode ELSE @]

\* COutput::GetCurrentMode / GetPreferredMode
GetCurrentMode(o) ==
  IF o.m_currentMode = ModesEnd THEN "runtime_error" ELSE o.m_currentMode

GetPreferredMode(o) ==
  IF o.m_preferredMode = ModesEnd THEN "runtime_error" ELSE o.m_preferredMode

InitOutput ==
  outp = [m_modes |-> {}, m_currentMode |-> ModesEnd, m_preferredMode |-> ModesEnd,
          events |-> <<>>]

HandleMode(flags, mode) ==
  /\ Len(outp.events) < MaxModeEvents
  /\ outp' = [OnMode(outp, flags, mode) EXCEPT
                !.events = Append(@, [flags |-> flags, mode |-> mode])]
  /\ UNCHANGED <<win, shell, egl, disp, sched, wlout, hist, seat, moreVars>>

-----------------------------------------------------------------------------
(* CConnection: the registry and the globals bound from it *)

\* interfaces with an entry in m_binds, BindSingletons lines 59-70
SingletonInterfaces ==
  {"wl_compositor", "wl_shell", "wl_shm", "wl_data_device_manager",
   "wl_subcompositor", "zxdg_shell_v6", "zwp_idle_inhibit_manager_v1",
   "wp_presentation"}

\* interfaces a compositor announces: the above, seats, outputs, and one the
\* program has no use for
Interfaces == SingletonInterfaces \cup {"wl_seat", "wl_output", "wl_drm"}

\* versions a compositor offers an interface at
OfferedVersions == 1..MaxOffered

\* InterfaceBindInfo of every entry of m_binds: minVersion, maxVersion, required
\* (true unless given)
m_binds ==
  [i \in SingletonInterfaces |->
     CASE i = "wl_compositor" -> [minVersion |-> 1, maxVersion |-> 4, required |-> TRUE]
       [] i = "wl_shell" -> [minVersion |-> 1, maxVersion |-> 1, required |-> TRUE]
       [] i = "wl_shm" -> [minVersion |-> 1, maxVersion |-> 1, required |-> TRUE]
       [] i = "wl_data_device_manager" ->
            [minVersion |-> 1, maxVersion |-> 3, required |-> FALSE]
       [] OTHER -> [minVersion |-> 1, maxVersion |-> 1, required |-> FALSE]]

\* Bind with the version check left out
BindAnyVersion(minVersion, maxVersion, offeredVersion) ==
  [thrown |-> FALSE,
   version |-> IF offeredVersion < maxVersion THEN offeredVersion ELSE maxVersion]

\* Bind, lines 33-43: thrown is the std::runtime_error, version the version
\* registry.bind is called with (0: not called)
Bind(minVersion, maxVersion, offeredVersion) ==
  IF offeredVersion < minVersion
    THEN [thrown |-> TRUE, version |-> 0]
    ELSE [thrown |-> FALSE,
          version |-> IF offeredVersion < maxVersion THEN offeredVersion
                      ELSE maxVersion]

\* the bounds the on_global handler passes to Bind for an interface it binds
\* in the running phase, lines 94-115; <<>> if it binds nothing
BindBounds(c, interface) ==
  IF c.phase = "singletons" /\ interface \in DOMAIN m_binds
    THEN <<m_binds[interface].minVersion, m_binds[interface].maxVersion>>
  ELSE IF c.phase = "other" /\ interface = "wl_seat" THEN <<1, 5>>
  ELSE IF c.phase = "other" /\ interface = "wl_output" THEN <<2, 3>>
  ELSE <<>>

\* what the handler does with the outcome r of Bind: a singleton's proxy is
\* bound, a seat or an output is handed to the handler (OnSeatAdded,
\* OnOutputAdded); an exception ends the startup
OnGlobalBound(c, interface, r) ==
  IF r.thrown THEN [c EXCEPT !.phase = "failed", !.error = "version"]
  ELSE IF interface \in DOMAIN m_binds THEN [c EXCEPT !.target[interface] = r.version]
  ELSE [c EXCEPT !.handed[interface] = @ + 1]

\* every required interface counts as missing while any interface is unbound
MissingAny(c) == {i \in DOMAIN m_binds : c.target[i] = 0}

\* CheckRequiredGlobals, lines 125-131: the entries it throws for
MissingRequired(c) == {i \in DOMAIN m_binds : m_binds[i].required /\ c.target[i] = 0}

InitConn ==
  conn = [phase |-> "singletons", globals |-> 0, error |-> "none",
          target |-> [i \in SingletonInterfaces |-> 0],
          handed |-> [i \in {"wl_seat", "wl_output"} |-> 0],
          lastBind |-> [interface |-> "none", offered |-> 0, bounds |-> <<>>,
                        thrown |-> FALSE, version |-> 0,
                        before |-> 0, after |-> 0]]

\* what is bound of an interface: the version of a singleton's proxy (0:
\* unbound), the number of seats or outputs handed on
BoundOf(c, interface) ==
  IF interface \in DOMAIN c.target THEN c.target[interface]
  ELSE IF interface \in DOMAIN c.handed THEN c.handed[interface]
  ELSE 0

\* m_registry.on_global, lines 92-116, during one of the two round trips
OnGlobal(interface, version) ==
  /\ conn.phase \in {"singletons", "other"}
  /\ conn.globals < MaxGlobals
  /\ \E bounds \in {BindBounds(conn, interface)} :
       \E c \in {IF bounds = <<>> THEN conn
                 ELSE OnGlobalBound(conn, interface,
                                    Bind(bounds[1], bounds[2], version))} :
         conn' = [c EXCEPT
                    !.globals = @ + 1,
                    !.lastBind =
                       [interface |-> interface, offered |-> version,
                        bounds |-> bounds,
                        thrown |-> c.phase = "failed",
                        version |-> IF bounds = <<>> THEN 0
                                    ELSE Bind(bounds[1], bounds[2], version).version,
                        before |-> BoundOf(conn, interface),
                        after |-> BoundOf(c, interface)]]
  /\ UNCHANGED <<coreVars, lateVars, pump, touch, kbd, deco>>

\* the end of the first round trip: CheckRequiredGlobals, then BindOther
\* (lines 76-77, 81-84)
CheckRequiredGlobals ==
  /\ conn.phase = "singletons"
  /\ conn' = IF MissingRequired(conn) # {}
               THEN [conn EXCEPT !.phase = "failed", !.error = "missing"]
               ELSE [conn EXCEPT !.phase = "other", !.globals = 0]
  /\ UNCHANGED <<coreVars, lateVars, pump, touch, kbd, deco>>

-----------------------------------------------------------------------------
(* CSeatInputProcessor: touch points.  m_touchPoints maps the wl_touch id of  *)
(* a point to its Kodi pointer number; positions and times are left out.      *)

\* number of pointers the generic touch input handler tracks
TOUCH_MAX_POINTERS == 2
TouchIds == 1..MaxTouchIds

\* the search for a free pointer number, always ending at the first one
FreeKodiPointerFirst(points) == 0

\* on_down, lines 380-393: the lowest pointer number no point uses, -1 if none
FreeKodiPointer(points) ==
  LET free == {p \in 0..(TOUCH_MAX_POINTERS - 1) :
                 \A id \in DOMAIN points : points[id] # p}
  IN  IF free = {} THEN -1 ELSE CHOOSE p \in free : \A q \in free : p <= q

\* m_touchPoints.emplace(id, ...): an existing key keeps its element
Emplace(points, id, kodiPointer) ==
  IF id \in DOMAIN points THEN points ELSE points @@ (id :> kodiPointer)

\* m_touchPoints.erase(it)
Erase(points, id) == [i \in DOMAIN points \ {id} |-> points[i]]

InitTouch ==
  touch = [m_touchPoints |-> <<>>, down |-> {}, events |-> 0,
           last |-> [kind |-> "none", id |-> 0, sent |-> "none", pointer |-> -1,
                     free |-> -1]]

\* m_touch.on_down, lines 377-400; the compositor uses an id that is not down
OnTouchDown(id) ==
  /\ touch.events < MaxTouchEvents
  /\ id \notin touch.down
  /\ \E kodiPointer \in {FreeKodiPointer(touch.m_touchPoints)} :
       \E points \in {IF kodiPointer # -1
                        THEN Emplace(touch.m_touchPoints, id, kodiPointer)
                        ELSE touch.m_touchPoints} :
         touch' = [touch EXCEPT
                     !.m_touchPoints = points,
                     !.down = @ \cup {id},
                     !.events = @ + 1,
                     !.last = [kind |-> "down", id |-> id,
                               sent |-> IF kodiPointer # -1 THEN "TouchInputDown"
                                        ELSE "none",
                               pointer |-> IF kodiPointer # -1 THEN points[id] ELSE -1,
                               free |-> kodiPointer]]
  /\ UNCHANGED <<coreVars, lateVars, pump, conn, kbd, deco>>

\* m_touch.on_up, lines 401-411
OnTouchUp(id) ==
  /\ touch.events < MaxTouchEvents
  /\ id \in touch.down
  /\ touch' = [touch EXCEPT
                 !.m_touchPoints = IF id \in DOMAIN @ THEN Erase(@, id) ELSE @,
                 !.down = @ \ {id},
                 !.events = @ + 1,
                 !.last = IF id \in DOMAIN touch.m_touchPoints
                            THEN [kind |-> "up", id |-> id, sent |-> "TouchInputUp",
                                  pointer |-> touch.m_touchPoints[id], free |-> -1]
                            ELSE [kind |-> "up", id |-> id, sent |-> "none",
                                  pointer |-> -1, free |-> -1]]
  /\ UNCHANGED <<coreVars, lateVars, pump, conn, kbd, deco>>

\* m_touch.on_motion, lines 412-423
OnTouchMotion(id) ==
  /\ touch.events < MaxTouchEvents
  /\ id \in touch.down
  /\ touch' = [touch EXCEPT
                 !.events = @ + 1,
                 !.last = IF id \in DOMAIN touch.m_touchPoints
                            THEN [kind |-> "motion", id |-> id, sent |-> "TouchInputMove",
                                  pointer |-> touch.m_touchPoints[id], free |-> -1]
                            ELSE [kind |-> "motion", id |-> id, sent |-> "none",
                                  pointer |-> -1, free |-> -1]]
  /\ UNCHANGED <<coreVars, lateVars, pump, conn, kbd, deco>>

\* m_touch.on_cancel, lines 424-432: the event names the first point of the map
OnTouchCancel ==
  /\ touch.events < MaxTouchEvents
  /\ touch' = [touch EXCEPT
                 !.m_touchPoints = <<>>,
                 !.down = {},
                 !.events = @ + 1,
                 !.last = IF DOMAIN touch.m_touchPoints # {}
                            THEN [kind |-> "cancel", id |-> 0, sent |-> "TouchInputAbort",
                                  pointer |-> touch.m_touchPoints[
                                     CHOOSE i \in DOMAIN touch.m_touchPoints :
                                       \A j \in DOMAIN touch.m_touchPoints : i <= j],
                                  free |-> -1]
                            ELSE [kind |-> "cancel", id |-> 0, sent |-> "none",
                                  pointer |-> -1, free |-> -1]]
  /\ UNCHANGED <<coreVars, lateVars, pump, conn, kbd, deco>>

-----------------------------------------------------------------------------
(* CSeatInputProcessor: the keyboard of one seat, its keymap and the key     *)
(* repeat timer. The event thread runs the wl_keyboard handlers, the         *)
(* thread of m_keyRepeatTimer runs CKeyRepeatCallback::OnTimeout.            *)

WL_KEYBOARD_XKB_CODE_OFFSET == 8

\* wire scancodes of the key events. A std::uint32_t is the pair <<high 16
\* bits, low 16 bits>>: the pair <<h, l>> is the number h * 2^16 + l
ScanCodes == {<<0, 1>>, <<0, 2>>, <<0, 255>>, <<0, 256>>, <<2^16 - 1, 2^16 - 1>>}
\* keymaps the compositor sends; m_keymap = 0 is the empty unique_ptr
Keymaps == 1..MaxKeymaps

\* a + n in std::uint32_t arithmetic, for 0 <= n < 2^16
U32Add(a, n) ==
  <<(a[1] + (a[2] + n) \div 2^16) % 2^16, (a[2] + n) % 2^16>>

\* an XBMC_Event that was not created
NoEvent == [type |-> "none", scancode |-> 0, mod |-> 0, unicode |-> 0]

\* CXkbcommonKeymap::UnicodeCodepointForKeycode: the table of a keymap; the
\* tables taken here have codepoints on both sides of the 16 bit limit
UnicodeCodepointForKeycode(keymap, mods, code) ==
  CASE code = <<0, 9>>   -> (IF mods = 0 THEN 97 ELSE 65) + 256 * (keymap - 1)
    [] code = <<0, 10>>  -> 128512
    [] code = <<0, 263>> -> 65535
    [] code = <<0, 264>> -> 65536 + (keymap - 1)
    [] OTHER             -> 0

\* CXkbcommonKeymap::ShouldKeycodeRepeat
ShouldKeycodeRepeat(keymap, code) == code \in {<<0, 9>>, <<0, 263>>, <<0, 264>>}

\* the conversion without the two range checks: the plain narrowing of
\* static_cast<std::uint16_t> and of the unsigned char parameter
ConvertKeyNarrowingOnly(k, scancode, pressed) ==
  LET xkbCode == U32Add(scancode, WL_KEYBOARD_XKB_CODE_OFFSET)
      utf32 == UnicodeCodepointForKeycode(k.m_keymap, k.mods, xkbCode)
  IN [xkbCode |-> xkbCode, utf32 |-> utf32,
      event |-> [type |-> IF pressed THEN "XBMC_KEYDOWN" ELSE "XBMC_KEYUP",
                 scancode |-> scancode[2] % 2^8,
                 mod |-> k.mods,
                 unicode |-> utf32 % 2^16]]

\* ConvertAndSendKey, lines 306-323, and SendKey, lines 344-352: the keycode
\* looked up, the codepoint found and the event handed to the input handler
\* (std::uint32_t arithmetic, unsigned char scancode, std::uint16_t unicode)
ConvertKey(k, scancode, pressed) ==
  LET xkbCode == U32Add(scancode, WL_KEYBOARD_XKB_CODE_OFFSET)
      looked == UnicodeCodepointForKeycode(k.m_keymap, k.mods, xkbCode)
      utf32 == IF looked > 2^16 - 1 THEN 0 ELSE looked
      code == IF scancode[1] > 0 \/ scancode[2] > 2^8 - 1 THEN 0 ELSE scancode[2]
  IN [xkbCode |-> xkbCode, utf32 |-> looked,
      event |-> [type |-> IF pressed THEN "XBMC_KEYDOWN" ELSE "XBMC_KEYUP",
                 scancode |-> code % 2^8,
                 mod |-> k.mods,
                 unicode |-> utf32 % 2^16]]

\* CTimer::Stop() as the handlers call it, without waiting: the thread is told
\* to stop and ends once it is out of the callback
CTimerStop(timer) ==
  IF timer.running THEN [timer EXCEPT !.m_bStop = TRUE] ELSE timer

InitKbd ==
  kbd = [m_keymap |-> 0, mods |-> 0,
         m_keyRepeatDelay |-> 1000, m_keyRepeatInterval |-> 50,
         m_keyToRepeat |-> NoEvent,
         timer |-> [running |-> FALSE, m_bStop |-> FALSE, inCallback |-> FALSE],
         \* the event the event thread holds while it waits in Stop(true)
         pending |-> NoEvent,
         \* observations: the last key, modifiers or keymap event handled
         last |-> [kind |-> "none", format |-> "none", fdClosed |-> FALSE,
                   wire |-> <<0, 0>>, pressed |-> FALSE, xkbCode |-> <<0, 0>>, utf32 |-> 0,
                   sent |-> NoEvent, arming |-> FALSE],
         \* a keymap in another format was the last keymap event
         unsupported |-> FALSE,
         \* a modifiers or keymap handler has stopped the timer and returned,
         \* and no key press was handled since
         stopped |-> FALSE,
         \* the last synthetic repeat since the last key press
         rep |-> [seen |-> FALSE, afterStop |-> FALSE, mod |-> 0,
                  unsupported |-> FALSE]]

NoKeyFields ==
  [wire |-> <<0, 0>>, pressed |-> FALSE, xkbCode |-> <<0, 0>>, utf32 |-> 0,
   sent |-> NoEvent, arming |-> FALSE]

\* m_keyboard.on_repeat_info, lines 245-251
OnRepeatInfo(rate, delay) ==
  /\ kbd.pending = NoEvent
  /\ kbd' = [kbd EXCEPT
               !.m_keyRepeatInterval =
                  IF rate = 0 THEN 0
                  ELSE IF rate > 0 THEN 1000 \div rate ELSE -(1000 \div (-rate)),
               !.m_keyRepeatDelay = delay]
  /\ UNCHANGED <<coreVars, lateVars, pump, conn, touch, deco>>

\* m_keyboard.on_keymap, lines 252-280; parsed = FALSE is the exception of
\* KeymapFromSharedMemory
OnKeymap(format, keymap, parsed) ==
  /\ kbd.pending = NoEvent
  /\ kbd' =
       IF format # "xkb_v1"
         THEN [kbd EXCEPT
                 !.last = [kind |-> "keymap", format |-> format,
                           fdClosed |-> TRUE] @@ NoKeyFields,
                 !.unsupported = TRUE]
         ELSE [kbd EXCEPT
                 !.timer = CTimerStop(@),
                 !.m_keymap = IF parsed THEN keymap ELSE @,
                 !.mods = IF parsed THEN 0 ELSE @,
                 !.last = [kind |-> "keymap", format |-> format,
                           fdClosed |-> TRUE] @@ NoKeyFields,
                 !.unsupported = FALSE,
                 !.stopped = TRUE]
  /\ UNCHANGED <<coreVars, lateVars, pump, conn, touch, deco>>

\* m_keyboard.on_key, lines 281-290, with ConvertAndSendKey, lines 304-338.
\* Stop(true) waits for the timer thread: when that thread runs, the event
\* thread keeps the event and goes on in KeyRepeatStart
OnKey(key, pressed) ==
  /\ kbd.pending = NoEvent
  /\ \E c \in {ConvertKey(kbd, key, pressed)} :
     \E arming \in {/\ kbd.m_keymap # 0
                    /\ pressed
                    /\ ShouldKeycodeRepeat(kbd.m_keymap, c.xkbCode)
                    /\ kbd.m_keyRepeatInterval > 0} :
       kbd' =
         IF kbd.m_keymap = 0
           THEN [kbd EXCEPT
                   !.last = [kind |-> "key", format |-> "none", fdClosed |-> FALSE,
                             wire |-> key, pressed |-> pressed, xkbCode |-> <<0, 0>>,
                             utf32 |-> 0, sent |-> NoEvent, arming |-> FALSE]]
           ELSE [kbd EXCEPT
                   !.last = [kind |-> "key", format |-> "none", fdClosed |-> FALSE,
                             wire |-> key, pressed |-> pressed,
                             xkbCode |-> c.xkbCode, utf32 |-> c.utf32,
                             sent |-> c.event, arming |-> arming],
                   !.stopped = IF pressed THEN FALSE ELSE @,
                   !.rep = IF pressed
                             THEN [seen |-> FALSE, afterStop |-> FALSE, mod |-> 0,
                                   unsupported |-> FALSE]
                             ELSE @,
                   !.timer = IF arming /\ ~kbd.timer.running
                               THEN [running |-> TRUE, m_bStop |-> FALSE,
                                     inCallback |-> FALSE]
                               ELSE CTimerStop(@),
                   !.m_keyToRepeat = IF arming /\ ~kbd.timer.running
                                       THEN c.event ELSE @,
                   !.pending = IF arming /\ kbd.timer.running
                                 THEN c.event ELSE NoEvent]
  /\ UNCHANGED <<coreVars, lateVars, pump, conn, touch, deco>>

\* ConvertAndSendKey, lines 328-332, once Stop(true) has returned
KeyRepeatStart ==
  /\ kbd.pending # NoEvent
  /\ ~kbd.timer.running
  /\ kbd' = [kbd EXCEPT
               !.m_keyToRepeat = kbd.pending,
               !.timer = [running |-> TRUE, m_bStop |-> FALSE, inCallback |-> FALSE],
               !.pending = NoEvent]
  /\ UNCHANGED <<coreVars, lateVars, pump, conn, touch, deco>>

\* m_keyboard.on_modifiers, lines 291-301
OnModifiers(mask) ==
  /\ kbd.pending = NoEvent
  /\ kbd' =
       IF kbd.m_keymap = 0
         THEN [kbd EXCEPT
                 !.last = [kind |-> "modifiers", format |-> "none",
                           fdClosed |-> FALSE] @@ NoKeyFields]
         ELSE [kbd EXCEPT
                 !.timer = CTimerStop(@),
                 !.mods = mask,
                 !.last = [kind |-> "modifiers", format |-> "none",
                           fdClosed |-> FALSE] @@ NoKeyFields,
                 !.stopped = TRUE]
  /\ UNCHANGED <<coreVars, lateVars, pump, conn, touch, deco>>

\* the thread of CTimer between two callbacks: it ends when it was told to
\* stop, and enters the callback when the timeout has passed
CTimerProcess ==
  /\ kbd.timer.running
  /\ ~kbd.timer.inCallback
  /\ kbd' = [kbd EXCEPT
               !.timer = IF @.m_bStop
                           THEN [running |-> FALSE, m_bStop |-> FALSE,
                                 inCallback |-> FALSE]
                           ELSE [@ EXCEPT !.inCallback = TRUE]]
  /\ UNCHANGED <<coreVars, lateVars, pump, conn, touch, deco>>

\* CKeyRepeatCallback::OnTimeout, lines 363-373, on the timer thread: the
\* timer is rescheduled, a key up and a key down of m_keyToRepeat are sent
OnTimeout ==
  /\ kbd.timer.inCallback
  /\ kbd' = [kbd EXCEPT
               !.timer = [@ EXCEPT !.inCallback = FALSE],
               !.rep = [seen |-> TRUE, afterStop |-> kbd.stopped,
                        mod |-> kbd.m_keyToRepeat.mod,
                        unsupported |-> kbd.unsupported]]
  /\ UNCHANGED <<coreVars, lateVars, pump, conn, touch, deco>>

-----------------------------------------------------------------------------
(* CWindowDecorator: the state it is set to and its buffers *)

\* full surface sizes the decorator is set to: below the decoration size,
\* the decoration size itself, and above it
DecoSizes == {<<5, 20>>, <<10, 43>>, <<80, 120>>}

\* the constructor, lines 315-326; no shell surface exists yet, the size is
\* the default CSizeInt and no buffer is allocated
InitDeco ==
  deco = [shell |-> "none",
          m_mainSurfaceSize |-> <<0, 0>>, m_scale |-> 1, m_windowState |-> {},
          buffers |-> "none",
          \* the wl_buffer of the currentBuffer of the border surfaces (the
          \* four surfaces are handled alike; 0 is the null proxy), the
          \* number of the next buffer created, and m_pendingBuffers
          current |-> 0, nextBuffer |-> 1, m_pendingBuffers |-> {},
          \* m_buttons: the left edge of the minimize, maximize and close
          \* button; the sequence is empty while there are no decorations
          m_buttons |-> <<>>,
          \* observations: the last click on a border surface and the call
          \* of the handler it led to
          click |-> [surface |-> "none", button |-> "none",
                     position |-> <<0, 0>>, action |-> <<"none", "none">>,
                     main |-> <<0, 0>>, buttons |-> <<>>,
                     cursorEdge |-> "none"],
          \* compositor: commits of each buffer it has not released yet
          held |-> [i \in 1..MaxBuffers |-> 0],
          \* observations: a buffer lost its last reference while the
          \* compositor held it
          destroyedHeld |-> FALSE,
          \* observations: the last call of SetState, its arguments, the main
          \* surface size it computed, what it did, the members before it,
          \* the buffer it painted and committed and whether that was pending
          last |-> [op |-> "none", size |-> <<0, 0>>, scale |-> 1, state |-> {},
                    main |-> <<0, 0>>, effect |-> "none",
                    before |-> [size |-> <<0, 0>>, scale |-> 1, state |-> {},
                                buffers |-> "none"],
                    committed |-> 0, wasPending |-> FALSE]]

\* CWinSystemWayland::CreateNewWindow, lines 233 and 244-249: the decorator is
\* created whatever the shell is; the shell surface is the xdg one if
\* TryCreate gives one, the wl_shell one otherwise
CreateShellSurface(hasXdgShell) ==
  /\ deco.shell = "none"
  /\ deco' = [deco EXCEPT
                !.shell = IF hasXdgShell THEN "zxdg_shell_v6" ELSE "wl_shell"]
  /\ UNCHANGED <<coreVars, lateVars, pump, conn, touch, kbd>>

\* SetState that resets the decorations whenever anything differs
SetStateEffectAlwaysReset(b, d, mainSurfaceSize, scale, state) ==
  IF /\ mainSurfaceSize = d.m_mainSurfaceSize
     /\ scale = d.m_scale
     /\ state = d.m_windowState
    THEN "return"
    ELSE "Reset"

\* the branch SetState takes, lines 565-600
SetStateEffect(b, d, mainSurfaceSize, scale, state) ==
  IF /\ mainSurfaceSize = d.m_mainSurfaceSize
     /\ scale = d.m_scale
     /\ state = d.m_windowState
    THEN "return"
    ELSE IF \/ mainSurfaceSize # d.m_mainSurfaceSize
            \/ scale # d.m_scale
            \/ StateHasWindowDecorations(b, d.m_windowState)
                 # StateHasWindowDecorations(b, state)
           THEN "Reset"
           ELSE IF StateHasWindowDecorations(b, state) THEN "Repaint" ELSE "none"

\* SurfaceSize, lines 89-103: the size of a border surface around a main
\* surface of the size given
SurfaceSize(type, windowSurfaceSize) ==
  CASE type = "SURFACE_TOP" ->
         <<windowSurfaceSize[1] + 2 * BORDER_WIDTH, TOP_BAR_HEIGHT + BORDER_WIDTH>>
    [] type = "SURFACE_BOTTOM" ->
         <<windowSurfaceSize[1] + 2 * BORDER_WIDTH, BORDER_WIDTH>>
    [] OTHER -> <<BORDER_WIDTH, windowSurfaceSize[2]>>

\* CWindowDecorator::PositionButtons, lines 328-339, for a top buffer of the
\* width given: the buttons are placed from the last (close) to the first
\* (minimize), each step moves on from the clamped position of the one before
PositionButtons(width) ==
  LET close == Max({0, width - BORDER_WIDTH - (BUTTONS_EDGE_DISTANCE + BUTTON_SIZE)})
      maximize == Max({0, close - (BUTTONS_EDGE_DISTANCE + BUTTON_SIZE)})
      minimize == Max({0, maximize - (BUTTONS_EDGE_DISTANCE + BUTTON_SIZE)})
  IN <<minimize, maximize, close>>

\* ResizeEdgeForPosition, lines 187-258
ResizeEdgeForPosition(surface, surfaceSize, position) ==
  LET left == position[1] <= RESIZE_MAX_CORNER_DISTANCE
      right == position[1] >= surfaceSize[1] - RESIZE_MAX_CORNER_DISTANCE
      bottom == position[2] >= surfaceSize[2] - RESIZE_MAX_CORNER_DISTANCE
  IN CASE surface = "SURFACE_TOP" ->
            IF position[2] <= RESIZE_MAX_CORNER_DISTANCE
              THEN IF left THEN "top_left" ELSE IF right THEN "top_right" ELSE "top"
              ELSE IF left THEN "left" ELSE IF right THEN "right" ELSE "none"
       [] surface = "SURFACE_RIGHT" -> IF bottom THEN "bottom_right" ELSE "right"
       [] surface = "SURFACE_BOTTOM" ->
            IF left THEN "bottom_left" ELSE IF right THEN "bottom_right"
            ELSE "bottom"
       [] surface = "SURFACE_LEFT" -> IF bottom THEN "bottom_left" ELSE "left"
       [] OTHER -> "none"

\* the rectangle of a button, lines 330 and 337, and CRectGen::PtInRect
ButtonHit(x, position) ==
  /\ x <= position[1] /\ position[1] <= x + BUTTON_SIZE
  /\ BORDER_WIDTH + BUTTONS_EDGE_DISTANCE <= position[2]
  /\ position[2] <= BORDER_WIDTH + BUTTONS_EDGE_DISTANCE + BUTTON_SIZE

\* the click handling that tests the edges against the size of the border
\* surface that was clicked
SeatClickActionOnSurface(d, surface, button, position) ==
  IF button = "BTN_LEFT"
    THEN LET resizeEdge == ResizeEdgeForPosition(
                             surface, SurfaceSize(surface, d.m_mainSurfaceSize),
                             position)
             hit == {i \in DOMAIN d.m_buttons : ButtonHit(d.m_buttons[i], position)}
         IN IF resizeEdge # "none" THEN <<"OnWindowResize", resizeEdge>>
            ELSE IF hit # {}
                   THEN <<"onClick",
                          <<"minimize", "maximize", "close">>[
                             CHOOSE i \in hit : \A j \in hit : i <= j]>>
                   ELSE <<"OnWindowMove", "none">>
    ELSE IF button = "BTN_RIGHT" /\ surface = "SURFACE_TOP"
           THEN <<"OnWindowShowContextMenu", "none">>
           ELSE <<"none", "none">>

\* CWindowDecorator::UpdateSeatCursor, lines 424-443: the resize edge whose
\* cursor is shown for the pointer position on the surface
SeatCursorEdge(d, surface, position) ==
  ResizeEdgeForPosition(surface, SurfaceSize(surface, d.m_mainSurfaceSize),
                        position)

\* CWindowDecorator::HandleSeatClick, lines 480-514: the handler that is
\* called; the edges are tested against m_mainSurfaceSize, the buttons in the
\* order of m_buttons
SeatClickAction(d, surface, button, position) ==
  IF button = "BTN_LEFT"
    THEN LET resizeEdge == ResizeEdgeForPosition(surface, d.m_mainSurfaceSize,
                                                 position)
             hit == {i \in DOMAIN d.m_buttons : ButtonHit(d.m_buttons[i], position)}
         IN IF resizeEdge # "none" THEN <<"OnWindowResize", resizeEdge>>
            ELSE IF hit # {}
                   THEN <<"onClick",
                          <<"minimize", "maximize", "close">>[
                             CHOOSE i \in hit : \A j \in hit : i <= j]>>
                   ELSE <<"OnWindowMove", "none">>
    ELSE IF button = "BTN_RIGHT" /\ surface = "SURFACE_TOP"
           THEN <<"OnWindowShowContextMenu", "none">>
           ELSE <<"none", "none">>

\* AllocateBuffers, lines 741-759, after ResetShm has cleared the data
\* pointers, lines 700-719: currentBuffer = GetBuffer(...) puts a new wl_buffer
\* in place of the old one, which lives on only as a member of
\* m_pendingBuffers
AllocateBuffers(d) ==
  [d EXCEPT !.current = d.nextBuffer,
            !.nextBuffer = @ + 1,
            !.destroyedHeld =
               \/ @
               \/ /\ d.current # 0
                  /\ d.current \notin d.m_pendingBuffers
                  /\ d.held[d.current] > 0]

\* Repaint, lines 761-787, with CommitAllBuffers, lines 789-817: the current
\* buffer is filled, put into m_pendingBuffers, attached and committed
Repaint(d) ==
  IF d.current = 0 THEN d
  ELSE [d EXCEPT !.m_pendingBuffers = @ \cup {d.current},
                 !.held[d.current] = @ + 1]

\* CWindowDecorator::SetState, lines 562-601, with Reset, lines 603-615: Reset
\* releases the buffers and allocates new ones if the decorations are active.
\* The exception of CalculateMainSurfaceSize leaves the decorator as it was
SetState(size, scale, state) ==
  /\ deco.shell # "none"
  /\ \E mainSurfaceSize \in {CalculateMainSurfaceSize(Bundle, size, state)} :
     \E effect \in {IF mainSurfaceSize = OutOfRange THEN "thrown"
                    ELSE SetStateEffect(Bundle, deco, mainSurfaceSize, scale,
                                        state)} :
     \E allocated \in {IF effect = "Reset"
                             /\ StateHasWindowDecorations(Bundle, state)
                         THEN AllocateBuffers(deco) ELSE deco} :
     \E painted \in {IF \/ effect = "Repaint"
                         \/ /\ effect = "Reset"
                            /\ StateHasWindowDecorations(Bundle, state)
                       THEN Repaint(allocated) ELSE allocated} :
       /\ allocated.current <= MaxBuffers
       /\ \A i \in 1..MaxBuffers : painted.held[i] <= MaxCommits
       /\ deco' = [painted EXCEPT
                     !.m_windowState =
                        IF effect \in {"thrown", "return"} THEN @ ELSE state,
                     !.m_mainSurfaceSize =
                        IF effect = "Reset" THEN mainSurfaceSize ELSE @,
                     !.m_scale = IF effect = "Reset" THEN scale ELSE @,
                     !.buffers =
                        IF effect = "Reset"
                          THEN IF StateHasWindowDecorations(Bundle, state)
                                 THEN "allocated" ELSE "none"
                          ELSE @,
                     \* ResetButtons and PositionButtons; the top buffer has
                     \* the size of the top surface times the scale
                     !.m_buttons =
                        IF effect = "Reset"
                          THEN IF StateHasWindowDecorations(Bundle, state)
                                 THEN PositionButtons(
                                        SurfaceSize("SURFACE_TOP",
                                                    mainSurfaceSize)[1] * scale)
                                 ELSE <<>>
                          ELSE @,
                     !.last = [op |-> "SetState", size |-> size, scale |-> scale,
                               state |-> state, main |-> mainSurfaceSize,
                               effect |-> effect,
                               before |-> [size |-> deco.m_mainSurfaceSize,
                                           scale |-> deco.m_scale,
                                           state |-> deco.m_windowState,
                                           buffers |-> deco.buffers],
                               committed |->
                                  IF painted.held # allocated.held
                                    THEN allocated.current ELSE 0,
                               wasPending |->
                                  /\ painted.held # allocated.held
                                  /\ allocated.current \in deco.m_pendingBuffers]]
  /\ UNCHANGED <<coreVars, lateVars, pump, conn, touch, kbd>>

\* seat.pointer.on_button, lines 400-406, with HandleSeatClick: a button is
\* pressed at a position (converted to CPointInt) on a border surface, which
\* exists while the decorations are active; the position is the one of the
\* last enter or motion event, for which UpdateSeatCursor has set the cursor
HandleSeatClick(surface, button, position) ==
  /\ deco.buffers = "allocated"
  /\ position[1] < SurfaceSize(surface, deco.m_mainSurfaceSize)[1]
  /\ position[2] < SurfaceSize(surface, deco.m_mainSurfaceSize)[2]
  /\ deco' = [deco EXCEPT
                !.click = [surface |-> surface, button |-> button,
                           position |-> position,
                           action |-> SeatClickAction(deco, surface, button,
                                                      position),
                           main |-> deco.m_mainSurfaceSize,
                           buttons |-> deco.m_buttons,
                           cursorEdge |-> SeatCursorEdge(deco, surface,
                                                         position)]]
  /\ UNCHANGED <<coreVars, lateVars, pump, conn, touch, kbd>>

\* wl_buffer.release for one commit of a buffer whose proxy is alive; the
\* handler set by CommitAllBuffers, lines 802-810, takes the buffer out of
\* m_pendingBuffers, where the last reference to a replaced buffer is kept
OnBufferRelease(buffer) ==
  /\ deco.held[buffer] > 0
  /\ buffer = deco.current \/ buffer \in deco.m_pendingBuffers
  /\ deco' = [deco EXCEPT
                !.held[buffer] = @ - 1,
                !.m_pendingBuffers = @ \ {buffer},
                !.destroyedHeld =
                   \/ @
                   \/ /\ buffer \in deco.m_pendingBuffers
                      /\ buffer # deco.current
                      /\ deco.held[buffer] > 1]
  /\ UNCHANGED <<coreVars, lateVars, pump, conn, touch, kbd>>

-----------------------------------------------------------------------------
(* The event pump: CWinEventsWaylandThread, CWinEventsWayland::SetDisplay    *)
(* and the calls of the window system that start and stop the thread.       *)
(* The calling thread is at "main", the pump thread at "pc"; a thread       *)
(* dispatches protocol callbacks while it is in a roundtrip or in           *)
(* dispatch_pending.                                                        *)

InitPump ==
  pump = [main |-> "idle",
          m_connection |-> FALSE,      \* the display socket is open
          m_surface |-> FALSE,
          g_WlMessagePump |-> FALSE,
          pc |-> "none",
          cancelled |-> FALSE,         \* a byte is in the cancellation pipe
          readable |-> FALSE,          \* events wait on the display socket
          hangup |-> FALSE,            \* the compositor closed the socket
          \* observations: what the last poll() returned, and whether
          \* events were read after a poll() that returned the cancellation
          sawCancel |-> FALSE, sawSocket |-> FALSE, readAfterCancel |-> FALSE]

PumpAlive == pump.pc \in {"loop", "read", "dispatch", "blocked"}
ProcessAlive == pump.pc # "terminated"

\* Process, lines 116-126: the decision after poll() has returned
AfterPoll(cancelRevents, waylandIn, waylandErr) ==
  IF cancelRevents THEN "exited"
  ELSE IF waylandErr THEN "terminated"
  ELSE "read"

\* CWinEventsWayland::SetDisplay, lines 157-170, up to the wait for the thread
SetDisplay(p, display, thenMain) ==
  IF display /\ ~p.g_WlMessagePump
    THEN [p EXCEPT !.g_WlMessagePump = TRUE, !.pc = "loop", !.main = "idle",
                   !.sawCancel = FALSE, !.sawSocket = FALSE,
                   !.readAfterCancel = FALSE]
    ELSE IF p.g_WlMessagePump
           \* Stop, lines 71-77: write to the pipe, WaitForThreadExit
           THEN [p EXCEPT !.cancelled = TRUE, !.main = thenMain]
           ELSE [p EXCEPT !.main = IF thenMain = "join_destroy"
                                     THEN "teardown" ELSE "idle"]

\* CWinSystemWayland::InitWindowSystem, lines 119-165, up to the roundtrip
InitWindowSystem ==
  /\ ProcessAlive
  /\ pump.main = "idle"
  /\ ~pump.m_connection
  /\ pump' = [pump EXCEPT !.m_connection = TRUE, !.main = "init_roundtrip",
                          !.hangup = FALSE, !.readable = FALSE]
  /\ UNCHANGED <<coreVars, lateVars, conn, touch, kbd, deco>>

\* the roundtrip of line 150 returns
InitWindowSystemReturn ==
  /\ ProcessAlive
  /\ pump.main = "init_roundtrip"
  /\ pump' = [pump EXCEPT !.main = "idle"]
  /\ UNCHANGED <<coreVars, lateVars, conn, touch, kbd, deco>>

\* CWinSystemWayland::CreateNewWindow, lines 199-279: the surface and the
\* shell surface are created; CShellSurfaceXdgShellUnstableV6::Initialize,
\* lines 96-102, does a roundtrip, CShellSurfaceWlShell::Initialize does not
PumpCreateNewWindow(hasXdgShell) ==
  /\ ProcessAlive
  /\ pump.main = "idle"
  /\ pump.m_connection
  /\ ~pump.m_surface
  /\ pump' = IF hasXdgShell
               THEN [pump EXCEPT !.m_surface = TRUE, !.main = "create_roundtrip"]
               ELSE SetDisplay([pump EXCEPT !.m_surface = TRUE], TRUE,
                               "join_create")
  /\ UNCHANGED <<coreVars, lateVars, conn, touch, kbd, deco>>

\* CreateNewWindow, lines 279-326: the roundtrip has returned, the event pump
\* is started with SetDisplay
PumpCreateNewWindowReturn ==
  /\ ProcessAlive
  /\ pump.main = "create_roundtrip"
  /\ pump' = SetDisplay(pump, TRUE, "join_create")
  /\ UNCHANGED <<coreVars, lateVars, conn, touch, kbd, deco>>

\* CWinSystemWayland::DestroyWindow, lines 328-335
PumpDestroyWindow ==
  /\ ProcessAlive
  /\ pump.main = "idle"
  /\ pump.m_surface
  /\ pump' = [pump EXCEPT !.m_surface = FALSE]
  /\ UNCHANGED <<coreVars, lateVars, conn, touch, kbd, deco>>

\* CWinSystemWayland::DestroyWindowSystem, lines 167-171: SetDisplay(nullptr)
DestroyWindowSystem ==
  /\ ProcessAlive
  /\ pump.main = "idle"
  /\ pump' = SetDisplay(pump, FALSE, "join_destroy")
  /\ UNCHANGED <<coreVars, lateVars, conn, touch, kbd, deco>>

\* WaitForThreadExit returns when the thread has left Process; SetDisplay
\* resets g_WlMessagePump, the destructor closes the pipe
ThreadJoined ==
  /\ ProcessAlive
  /\ pump.main \in {"join_create", "join_destroy"}
  /\ pump.pc = "exited"
  /\ pump' = [pump EXCEPT !.g_WlMessagePump = FALSE, !.pc = "none",
                          !.cancelled = FALSE,
                          !.main = IF @ = "join_destroy" THEN "teardown"
                                   ELSE "idle"]
  /\ UNCHANGED <<coreVars, lateVars, conn, touch, kbd, deco>>

\* DestroyWindowSystem, lines 172-197: the window, the registries and the
\* connection are reset, which closes the display socket
DestroyWindowSystemReturn ==
  /\ ProcessAlive
  /\ pump.main = "teardown"
  /\ pump' = [pump EXCEPT !.m_surface = FALSE, !.m_connection = FALSE,
                          !.readable = FALSE, !.hangup = FALSE,
                          !.main = "idle"]
  /\ UNCHANGED <<coreVars, lateVars, conn, touch, kbd, deco>>

\* Process, lines 107-126: read intent, flush, poll() on the socket and on the
\* pipe without timeout, and the tests of the revents
PumpPoll ==
  /\ pump.pc = "loop"
  /\ pump.cancelled \/ pump.readable \/ pump.hangup
  /\ pump' = [pump EXCEPT
                !.pc = AfterPoll(pump.cancelled, pump.readable, pump.hangup),
                !.sawCancel = pump.cancelled,
                !.sawSocket = pump.readable]
  /\ UNCHANGED <<coreVars, lateVars, conn, touch, kbd, deco>>

\* Process, lines 128-129: readIntent.read()
PumpRead ==
  /\ pump.pc = "read"
  /\ pump' = [pump EXCEPT !.pc = "dispatch", !.readable = FALSE,
                          !.readAfterCancel = @ \/ pump.sawCancel]
  /\ UNCHANGED <<coreVars, lateVars, conn, touch, kbd, deco>>

\* Process, lines 130-134: dispatch_pending() runs the callbacks. A configure
\* that changes the surface ends in ResetSurfaceSize, WinSystemWayland.cpp
\* lines 757-767: SetVideoResolution delegates to the main thread and blocks
\* until the main thread has processed the message
PumpDispatch(delegates) ==
  /\ pump.pc = "dispatch"
  /\ pump' = [pump EXCEPT !.pc = IF delegates THEN "blocked" ELSE "loop"]
  /\ UNCHANGED <<coreVars, lateVars, conn, touch, kbd, deco>>

\* the main thread, back in its loop, processes the delegated message; the
\* callback returns and with it dispatch_pending()
ProcessDelegated ==
  /\ ProcessAlive
  /\ pump.main = "idle"
  /\ pump.pc = "blocked"
  /\ pump' = [pump EXCEPT !.pc = "loop"]
  /\ UNCHANGED <<coreVars, lateVars, conn, touch, kbd, deco>>

\* the compositor sends events, or goes away
CompositorSends(hangup) ==
  /\ ProcessAlive
  /\ pump.m_connection
  /\ IF hangup THEN ~pump.hangup ELSE ~pump.readable
  /\ pump' = IF hangup THEN [pump EXCEPT !.hangup = TRUE]
             ELSE [pump EXCEPT !.readable = TRUE]
  /\ UNCHANGED <<coreVars, lateVars, conn, touch, kbd, deco>>

-----------------------------------------------------------------------------
(* The event queue: the event thread pushes with MessagePush, the main       *)
(* thread drains with MessagePump, which an event handler may call again.    *)
(* stack holds the active calls of MessagePump, the innermost last; an       *)
(* event is the number of its push.                                          *)

InitQueue ==
  queue = [m_queue |-> <<>>,
           lock |-> "none",        \* the thread that holds m_queueMutex
           push |-> "idle",        \* position of the event thread
           next |-> 1,
           stack |-> <<>>,
           \* observations: the events in the order they left the queue and
           \* in the order g_application.OnEvent was called with them
           taken |-> <<>>, handed |-> <<>>]

\* the innermost call of MessagePump
Innermost(q) == q.stack[Len(q.stack)]
SetInnermost(q, pc, event) ==
  [q EXCEPT !.stack[Len(q.stack)] = [pc |-> pc, event |-> event]]

\* lines 189-190 without the pop()
TakeFrontKeeping(m_queue) ==
  [event |-> Head(m_queue), m_queue |-> m_queue]

\* MessagePump, lines 189-190: front() and pop()
TakeFront(m_queue) ==
  [event |-> Head(m_queue), m_queue |-> Tail(m_queue)]

\* CWinSystemWayland::OnEvent, lines 1008-1011, calls MessagePush, lines
\* 199-201: the event thread takes the lock
MessagePushLock ==
  /\ queue.push = "idle"
  /\ queue.next <= MaxEvents
  /\ queue.lock = "none"
  /\ queue' = [queue EXCEPT !.lock = "push", !.push = "locked"]
  /\ UNCHANGED <<coreVars, compVars, buttons, frames>>

\* MessagePush, lines 202-203: emplace and the end of the scope of the lock
MessagePushEmplace ==
  /\ queue.push = "locked"
  /\ queue' = [queue EXCEPT !.m_queue = Append(@, queue.next),
                            !.next = @ + 1,
                            !.lock = "none", !.push = "idle"]
  /\ UNCHANGED <<coreVars, compVars, buttons, frames>>

\* MessagePump is called: by the main loop, or by the event handler that runs
\* in the innermost call
MessagePump ==
  /\ Len(queue.stack) < MaxDepth
  /\ queue.stack # <<>> => Innermost(queue).pc = "handler"
  /\ queue' = [queue EXCEPT !.stack = Append(@, [pc |-> "loop", event |-> 0])]
  /\ UNCHANGED <<coreVars, compVars, buttons, frames>>

\* lines 175-180: the loop takes the lock
MessagePumpLock ==
  /\ queue.stack # <<>>
  /\ Innermost(queue).pc = "loop"
  /\ queue.lock = "none"
  /\ queue' = [SetInnermost(queue, "locked", 0) EXCEPT !.lock = "main"]
  /\ UNCHANGED <<coreVars, compVars, buttons, frames>>

\* lines 182-191: with an empty queue the loop ends and MessagePump returns,
\* otherwise the front event is taken; the scope of the lock ends
MessagePumpTake ==
  /\ queue.stack # <<>>
  /\ Innermost(queue).pc = "locked"
  /\ queue' =
       IF queue.m_queue = <<>>
         THEN [queue EXCEPT !.lock = "none",
                            !.stack = SubSeq(@, 1, Len(@) - 1)]
         ELSE LET t == TakeFront(queue.m_queue)
              IN  [SetInnermost(queue, "event", t.event) EXCEPT
                     !.lock = "none",
                     !.m_queue = t.m_queue,
                     !.taken = Append(@, t.event)]
  /\ UNCHANGED <<coreVars, compVars, buttons, frames>>

\* line 193: g_application.OnEvent(event) is called
OnEventCalled ==
  /\ queue.stack # <<>>
  /\ Innermost(queue).pc = "event"
  /\ queue' = [SetInnermost(queue, "handler", Innermost(queue).event) EXCEPT
                 !.handed = Append(@, Innermost(queue).event)]
  /\ UNCHANGED <<coreVars, compVars, buttons, frames>>

\* line 193: the handler returns, the loop goes on
OnEventReturn ==
  /\ queue.stack # <<>>
  /\ Innermost(queue).pc = "handler"
  /\ queue' = SetInnermost(queue, "loop", 0)
  /\ UNCHANGED <<coreVars, compVars, buttons, frames>>

-----------------------------------------------------------------------------
(* CKeymapHandler: digital key events *)

HOLD_TIMEOUT_MS == 500
REPEAT_TIMEOUT_MS == 50

KeyIds == 0..MaxKeyId
\* hold times (ms) a key event carries: pressed in this frame, held below the
\* hold timeout, and held above it
HoldTimes == {0, 400, 520, 560, 600}
\* ACTION_NONE and one action of the keymap
ActionIds == {0, 1}

InitKeymap ==
  buttons = [m_pressedButtons |-> <<>>,
            m_lastButtonPress |-> 0,
            m_lastDigitalActionMs |-> 0,
            \* observations: the "invalid state" branch was taken, and the
            \* last event
            invalid |-> FALSE,
            op |-> [keyId |-> 0, bPressed |-> FALSE]]

\* CButtonTranslator::GetAction with CKey(keyId, holdTimeMs): the action the
\* keymap has for the key carries the button code and the hold time of the key
GetAction(keyId, holdTimeMs, actionId) ==
  [id |-> actionId, buttonCode |-> keyId, holdTime |-> holdTimeMs]

\* CKeymapHandler::IsPressed, lines 146-149
IsPressed(k, keyId) ==
  \E i \in 1..Len(k.m_pressedButtons) : k.m_pressedButtons[i] = keyId

\* CKeymapHandler::SendDigitalAction, lines 42-77: the return value
SendDigitalAction(action) == action.id > 0

\* CKeymapHandler::SendAction, lines 104-128
SendAction(k, action) ==
  LET keyId == action.buttonCode
      holdTimeMs == action.holdTime
  IN  IF ~IsPressed(k, keyId)
        THEN LET pushed == [k EXCEPT !.m_pressedButtons = Append(@, keyId)]
             IN  IF holdTimeMs = 0 /\ SendDigitalAction(action)
                   THEN [pushed EXCEPT !.m_lastButtonPress = keyId,
                                       !.m_lastDigitalActionMs = holdTimeMs]
                   ELSE pushed
        ELSE IF /\ keyId = k.m_lastButtonPress
                /\ holdTimeMs > HOLD_TIMEOUT_MS
                /\ holdTimeMs > k.m_lastDigitalActionMs + REPEAT_TIMEOUT_MS
               THEN [k EXCEPT !.m_lastDigitalActionMs = holdTimeMs]
               ELSE k

\* std::remove and erase, line 132
RemoveButton(pressed, keyId) == SelectSeq(pressed, LAMBDA b : b # keyId)

\* lines 130-144 without the reset of m_lastButtonPress of lines 135-136
ProcessButtonReleaseKeepingLast(k, keyId) ==
  LET erased == [k EXCEPT !.m_pressedButtons = RemoveButton(@, keyId)]
  IN  IF erased.m_pressedButtons = <<>> /\ erased.m_lastButtonPress # 0
        THEN [erased EXCEPT !.m_lastButtonPress = 0, !.invalid = TRUE]
        ELSE erased

\* CKeymapHandler::ProcessButtonRelease, lines 130-144
ProcessButtonRelease(k, keyId) ==
  LET erased == [k EXCEPT !.m_pressedButtons = RemoveButton(@, keyId)]
      reset == IF keyId = erased.m_lastButtonPress
                 THEN [erased EXCEPT !.m_lastButtonPress = 0]
                 ELSE erased
  IN  IF reset.m_pressedButtons = <<>> /\ reset.m_lastButtonPress # 0
        THEN [reset EXCEPT !.m_lastButtonPress = 0, !.invalid = TRUE]
        ELSE reset

\* CKeymapHandler::OnDigitalKey, lines 81-95; actionId is the action the
\* keymap of the window has for the key
OnDigitalKey(keyId, bPressed, holdTimeMs, actionId) ==
  /\ buttons' =
       IF keyId = 0 THEN buttons
       ELSE [(IF bPressed
                THEN SendAction(buttons, GetAction(keyId, holdTimeMs, actionId))
                ELSE ProcessButtonRelease(buttons, keyId))
             EXCEPT !.op = [keyId |-> keyId, bPressed |-> bPressed]]
  /\ UNCHANGED <<coreVars, compVars, queue, frames>>

-----------------------------------------------------------------------------
(* Frame submissions and presentation feedback *)

\* latencies measured, in units of 1 / LATENCY_MOVING_AVERAGE_SIZE of the
\* unit of m_latencyMovingAverage, so that the average is kept as a sum
Latencies == {1, 2}
\* values the latency member of a submission may hold before it is assigned:
\* the constructor, lines 1073-1076, leaves it uninitialized
IndeterminateLatencies == {0, 1, 2, 7}

\* m_surfaceSubmissions is a list of [id, presented, latency]; average is
\* m_latencyMovingAverage * LATENCY_MOVING_AVERAGE_SIZE
InitFrames ==
  frames = [m_surfaceSubmissions |-> <<>>,
            average |-> 0,
            next |-> 1,
            \* observation: the last event and the entry it dropped
            op |-> "none",
            dropped |-> [id |-> 0, presented |-> TRUE]]

\* the place of the submission with the id in the list, 0 if it is not there
IndexOf(list, id) ==
  IF \E i \in 1..Len(list) : list[i].id = id
    THEN CHOOSE i \in 1..Len(list) : list[i].id = id
    ELSE 0

\* std::list::erase
EraseAt(list, i) == SubSeq(list, 1, i - 1) \o SubSeq(list, i + 1, Len(list))

\* CWinSystemWayland::PrepareFramePresentation, lines 1088-1108: a frame is
\* submitted with a feedback object
PrepareFramePresentation ==
  /\ frames.next <= MaxFrames
  /\ frames' = [frames EXCEPT
                  !.m_surfaceSubmissions =
                     Append(@, [id |-> frames.next, presented |-> FALSE,
                                latency |-> 0]),
                  !.next = @ + 1,
                  !.op = "submit"]
  /\ UNCHANGED <<coreVars, compVars, queue, buttons>>

\* feedback.on_presented, lines 1122-1146, for the submission id: latency is
\* the one measured; frontLatency is what the read of the latency of a front
\* entry that was never presented yields, iterLatency what the read of
\* iter->latency yields after pop_front() has destroyed that very entry
OnPresented(id, latency, frontLatency, iterLatency) ==
  LET list == frames.m_surfaceSubmissions
      i == IndexOf(list, id)
      assigned == [list EXCEPT ![i].latency = latency, ![i].presented = TRUE]
      drops == Len(assigned) > LATENCY_MOVING_AVERAGE_SIZE
      front == assigned[1]
      adjust == IF drops
                  THEN IF front.presented THEN 0 - front.latency
                       ELSE 0 - frontLatency
                  ELSE 0
      read == IF drops /\ i = 1 THEN iterLatency ELSE latency
  IN  /\ i # 0
      /\ ~list[i].presented
      \* the two reads yield a value only where they take place
      /\ (drops /\ ~front.presented) \/ frontLatency = 0
      /\ (drops /\ i = 1) \/ iterLatency = 0
      /\ frames' = [frames EXCEPT
                      !.m_surfaceSubmissions =
                         IF drops THEN Tail(assigned) ELSE assigned,
                      !.average = @ + read + adjust,
                      !.op = "presented",
                      !.dropped = IF drops
                                    THEN [id |-> front.id,
                                          presented |-> front.presented]
                                    ELSE [id |-> 0, presented |-> TRUE]]
      /\ UNCHANGED <<coreVars, compVars, queue, buttons>>

\* feedback.on_discarded, lines 1147-1152
OnDiscarded(id) ==
  LET list == frames.m_surfaceSubmissions
      i == IndexOf(list, id)
  IN  /\ i # 0
      /\ ~list[i].presented
      /\ frames' = [frames EXCEPT
                      !.m_surfaceSubmissions = EraseAt(list, i),
                      !.op = "discarded",
                      !.dropped = [id |-> 0, presented |-> TRUE]]
      /\ UNCHANGED <<coreVars, compVars, queue, buttons>>

-----------------------------------------------------------------------------
(* The orchestrator with a fixed set of outputs: configure events, resolution *)
(* switches of the application, the surface entering and leaving outputs      *)

Init ==
  /\ InitWin
  /\ InitSeat
  /\ InitOutput
  /\ InitConn
  /\ InitTouch
  /\ InitKbd
  /\ InitDeco
  /\ InitPump
  /\ InitQueue
  /\ InitKeymap
  /\ InitFrames

Next ==
  \/ \E fullScreen \in BOOLEAN, size \in ConfigureSizes, state \in StateBitsets :
       CreateNewWindow(fullScreen, size, state)
  \/ \E size \in ConfigureSizes, state \in StateBitsets :
       HandleSurfaceConfigure(sched.nextSerial, size, state)
  \/ \E o \in OutputNames : SurfaceEnter(o)
  \/ \E o \in OutputNames : SurfaceLeave(o)
  \/ ProcessSetVideoResolution
  \/ \E idx \in RES_WINDOW..(RES_DESKTOP + MaxConfigures + 2) :
       ExternalSetVideoResolution(idx)

Spec == Init /\ [][Next]_vars

-----------------------------------------------------------------------------
(* The orchestrator under output hot-plug: outputs are announced, change    *)
(* their scale, become ready and are removed while the surface enters and    *)
(* leaves them                                                               *)

NextOutputs ==
  \/ \E fullScreen \in BOOLEAN :
       CreateNewWindow(fullScreen, <<80, 120>>,
                       IF fullScreen THEN {STATE_FULLSCREEN, STATE_ACTIVATED}
                       ELSE {STATE_ACTIVATED})
  \/ \E o \in OutputNames : SurfaceEnter(o)
  \/ \E o \in OutputNames : SurfaceLeave(o)
  \/ \E o \in OutputNames : OnOutputAdded(o)
  \/ \E o \in OutputNames, sc \in Scales : OnOutputScale(o, sc)
  \/ \E o \in OutputNames : OnOutputDone(o)
  \/ \E o \in OutputNames : OnOutputRemoved(o)
  \/ ProcessSetVideoResolution

SpecOutputs == Init /\ [][NextOutputs]_vars

-----------------------------------------------------------------------------
(* Fullscreen requests of the application while the surface moves between   *)
(* the outputs                                                               *)

NextFullScreen ==
  \/ \E fullScreen \in BOOLEAN :
       CreateNewWindow(fullScreen, <<80, 120>>,
                       IF fullScreen THEN {STATE_FULLSCREEN, STATE_ACTIVATED}
                       ELSE {STATE_ACTIVATED})
  \/ \E size \in {<<60, 100>>, <<80, 120>>} :
       HandleSurfaceConfigure(sched.nextSerial, size,
                              {STATE_FULLSCREEN, STATE_ACTIVATED})
  \/ \E o \in OutputNames : SurfaceEnter(o)
  \/ \E o \in OutputNames : SurfaceLeave(o)
  \/ \E o \in OutputNames : OnOutputAdded(o)
  \/ \E o \in OutputNames : OnOutputDone(o)
  \/ ProcessSetVideoResolution
  \/ \E idx \in RES_DESKTOP..(RES_DESKTOP + 1) : ExternalSetVideoResolution(idx)

SpecFullScreen == Init /\ [][NextFullScreen]_vars

-----------------------------------------------------------------------------
(* Configures in answer to set_fullscreen: the window is created, the       *)
(* surface enters an output, the compositor sends configures on its own and *)
(* answers every set_fullscreen request; the application requests nothing   *)

\* a fullscreen configure the compositor sends on its own, before the first
\* set_fullscreen request
OwnConfigure(size) ==
  /\ shell.lastRequest.kind = "none"
  /\ sched.nextSerial <= MaxConfigures + 2
  /\ SurfaceConfigured(sched.nextSerial, size,
                       {STATE_FULLSCREEN, STATE_ACTIVATED}, FALSE)

NextCycle ==
  \/ \E fullScreen \in BOOLEAN :
       CreateNewWindow(fullScreen, <<80, 120>>,
                       IF fullScreen THEN {STATE_FULLSCREEN, STATE_ACTIVATED}
                       ELSE {STATE_ACTIVATED})
  \/ \E o \in OutputNames : SurfaceEnter(o)
  \/ \E size \in {<<60, 100>>, <<80, 120>>} : OwnConfigure(size)
  \/ \E size \in {<<60, 100>>, <<80, 120>>} : AnswerConfigure(size)
  \/ ProcessSetVideoResolution

SpecCycle == Init /\ [][NextCycle]_vars

-----------------------------------------------------------------------------
(* The event queue *)

NextEvents ==
  \/ MessagePushLock
  \/ MessagePushEmplace
  \/ MessagePump
  \/ MessagePumpLock
  \/ MessagePumpTake
  \/ OnEventCalled
  \/ OnEventReturn

SpecEvents == Init /\ [][NextEvents]_vars

-----------------------------------------------------------------------------
(* Digital key events in the keymap handler *)

NextKeymap ==
  \E keyId \in KeyIds, bPressed \in BOOLEAN, holdTimeMs \in HoldTimes,
     actionId \in ActionIds :
    OnDigitalKey(keyId, bPressed, holdTimeMs, actionId)

SpecKeymap == Init /\ [][NextKeymap]_vars

-----------------------------------------------------------------------------
(* Frame submissions and the feedback of the compositor, in any order *)

NextFrames ==
  \/ PrepareFramePresentation
  \/ \E id \in 1..MaxFrames, latency \in Latencies,
        frontLatency \in IndeterminateLatencies,
        iterLatency \in IndeterminateLatencies :
       OnPresented(id, latency, frontLatency, iterLatency)
  \/ \E id \in 1..MaxFrames : OnDiscarded(id)

SpecFrames == Init /\ [][NextFrames]_vars

-----------------------------------------------------------------------------
(* Seat capability events of one seat *)

NextSeat == \E caps \in CapabilityMasks : HandleOnCapabilities(caps)

SpecSeat == Init /\ [][NextSeat]_vars

-----------------------------------------------------------------------------
(* Mode events of one output *)

NextMode == \E flags \in ModeFlags, mode \in Modes : HandleMode(flags, mode)

SpecMode == Init /\ [][NextMode]_vars

-----------------------------------------------------------------------------
(* The globals of the two startup round trips *)

NextConn ==
  \/ \E interface \in Interfaces, version \in OfferedVersions :
       OnGlobal(interface, version)
  \/ CheckRequiredGlobals

SpecConn == Init /\ [][NextConn]_vars

-----------------------------------------------------------------------------
(* Touch events of one seat *)

NextTouch ==
  \/ \E id \in TouchIds : OnTouchDown(id)
  \/ \E id \in TouchIds : OnTouchUp(id)
  \/ \E id \in TouchIds : OnTouchMotion(id)
  \/ OnTouchCancel

SpecTouch == Init /\ [][NextTouch]_vars

-----------------------------------------------------------------------------
(* Keyboard events of one seat, interleaved with the key repeat thread *)

NextKeyboard ==
  \* repeat rates in characters per second, the delay in ms
  \/ \E rate \in {0, 20}, delay \in {400} : OnRepeatInfo(rate, delay)
  \/ \E keymap \in Keymaps : OnKeymap("xkb_v1", keymap, TRUE)
  \/ \E format \in {"no_keymap", "xkb_v1"} : OnKeymap(format, 0, FALSE)
  \/ \E key \in ScanCodes, pressed \in BOOLEAN : OnKey(key, pressed)
  \/ KeyRepeatStart
  \* the effective modifier mask of the event
  \/ \E mask \in 0..1 : OnModifiers(mask)
  \/ CTimerProcess
  \/ OnTimeout

SpecKeyboard == Init /\ [][NextKeyboard]_vars

-----------------------------------------------------------------------------
(* The window decorator: the shell surface is created, then the decorator is *)
(* set to sizes, scales and states                                           *)

NextDecorator ==
  \/ \E hasXdgShell \in BOOLEAN : CreateShellSurface(hasXdgShell)
  \/ \E size \in DecoSizes, scale \in Scales, state \in StateBitsets :
       SetState(size, scale, state)
  \/ \E buffer \in 1..MaxBuffers : OnBufferRelease(buffer)

SpecDecorator == Init /\ [][NextDecorator]_vars

-----------------------------------------------------------------------------
(* Clicks on the border surfaces of the decorated window *)

BorderSurfaces ==
  {"SURFACE_TOP", "SURFACE_RIGHT", "SURFACE_BOTTOM", "SURFACE_LEFT"}
\* positions in the top bar and in the borders
ClickPositions ==
  {<<3, 3>>, <<10, 20>>, <<30, 20>>, <<62, 20>>, <<68, 20>>, <<78, 20>>,
   <<3, 60>>}

\* sizes of the window clicked on, a narrow one among them
ClickSizes == DecoSizes \cup {<<60, 100>>}

NextClicks ==
  \/ \E hasXdgShell \in BOOLEAN : CreateShellSurface(hasXdgShell)
  \/ \E size \in ClickSizes, scale \in Scales :
       SetState(size, scale, {STATE_ACTIVATED})
  \/ \E surface \in BorderSurfaces, position \in ClickPositions,
        button \in {"BTN_LEFT", "BTN_RIGHT", "BTN_MIDDLE"} :
       HandleSeatClick(surface, button, position)

SpecClicks == Init /\ [][NextClicks]_vars

-----------------------------------------------------------------------------
(* The event pump thread, interleaved with the calls that start and stop it *)

PumpThread == PumpPoll \/ PumpRead \/ \E delegates \in BOOLEAN : PumpDispatch(delegates)

NextPump ==
  \/ InitWindowSystem
  \/ InitWindowSystemReturn
  \/ \E hasXdgShell \in BOOLEAN : PumpCreateNewWindow(hasXdgShell)
  \/ PumpCreateNewWindowReturn
  \/ PumpDestroyWindow
  \/ DestroyWindowSystem
  \/ ThreadJoined
  \/ DestroyWindowSystemReturn
  \/ PumpPoll
  \/ PumpRead
  \/ \E delegates \in BOOLEAN : PumpDispatch(delegates)
  \/ ProcessDelegated
  \/ \E hangup \in BOOLEAN : CompositorSends(hangup)

\* the thread created by CThread::Create is scheduled, and the main thread
\* processes its messages when it is in its loop
SpecPump ==
  Init /\ [][NextPump]_vars /\ WF_vars(PumpThread) /\ WF_vars(ProcessDelegated)

-----------------------------------------------------------------------------
(* Properties of the configure / acknowledge cycle *)

BufferSize == <<win.m_nWidth, win.m_nHeight>>

\* the last acknowledgement sent answers the last configure handled, a runtime
\* configure whose processing changed the buffer size
AckOfResizingConfigure ==
  /\ hist.lastAck.serial = hist.lastConfigure.serial
  /\ hist.lastConfigure.serial > 1
  /\ hist.lastConfigure.bufferAfter # hist.lastConfigure.bufferBefore

\* C1: when the acknowledgement of a runtime configure that changed the buffer
\* size is sent, the EGL window has already been resized to the buffer size of
\* that configure (resize first, acknowledge second).
C1_ResizeBeforeAck ==
  AckOfResizingConfigure => hist.lastAck.eglMatches

\* the acknowledgement was sent while the EGL window still had the old size
C1_AckBeforeResize ==
  /\ AckOfResizingConfigure
  /\ ~hist.lastAck.eglMatches
  /\ hist.lastEvent = "switch"
  /\ egl = BufferSize

\* C2: once the event thread has finished the handler of a configure event,
\* the delegated resolution switch included, the serial of every configure
\* handled so far has been acknowledged through the shell surface, and no
\* serial has been acknowledged more than once.
C2_EveryConfigureAckedOnce ==
  (sched.phase = "running" /\ sched.pc = "idle") =>
    \A n \in hist.handled : shell.acked[n] = 1

\* no serial is acknowledged twice (the second half of C2 alone)
C2_NeverAckedTwice == \A n \in SerialRange : shell.acked[n] <= 1

\* a configure has been handled completely and its serial was never acknowledged
C2_ConfigureLeftUnacked ==
  /\ sched.phase = "running" /\ sched.pc = "idle"
  /\ \E n \in hist.handled : shell.acked[n] = 0

-----------------------------------------------------------------------------
(* Properties of the sizes *)

\* the buffer sizes the size the compositor announced last allows: its content
\* size, with or without decorations, at the current scale
AnnouncedBufferSizes ==
  {<<content[1] * win.m_scale, content[2] * win.m_scale>> :
     content \in {CalculateMainSurfaceSize(Bundle, hist.announcedSize, st) :
                    st \in {{STATE_ACTIVATED}, {STATE_FULLSCREEN, STATE_ACTIVATED}}}}

C5_OnlyFreeExternalAdopts ==
  hist.lastCall.surfaceAfter # hist.lastCall.surfaceBefore =>
    /\ hist.lastCall.origin = "external"
    /\ ~hist.lastCall.fullScreen
    /\ STATE_MAXIMIZED \notin hist.lastCall.stateBefore
    /\ STATE_FULLSCREEN \notin hist.lastCall.stateBefore
    /\ hist.lastCall.surfaceAfter = hist.lastCall.size

\* an external windowed call adopted its size
C5_ExternalAdopted ==
  /\ hist.lastCall.origin = "external"
  /\ hist.lastCall.surfaceAfter # hist.lastCall.surfaceBefore
  /\ hist.lastCall.surfaceAfter = hist.lastCall.size

\* C6: after every completely processed event the content size is the
\* configured size minus the decoration size if the current shell-surface
\* state has decorations, and the configured size otherwise.
C6_ContentSize ==
  (sched.phase = "running" /\ sched.pc = "idle") =>
    win.m_surfaceSize =
      CalculateMainSurfaceSize(Bundle, win.m_configuredSize, win.m_shellSurfaceState)

\* the surface is fullscreen, entered an output, and after the switch this
\* started its content size is the configured size minus the decorations
C6_DecorationsSubtractedInFullscreen ==
  /\ sched.phase = "running" /\ sched.pc = "idle"
  /\ hist.lastEvent = "switch"
  /\ hist.overlap # {}
  /\ STATE_FULLSCREEN \in win.m_shellSurfaceState
  /\ win.m_surfaceSize[1] = win.m_configuredSize[1] - DecorationSize[1]
  /\ win.m_surfaceSize[2] = win.m_configuredSize[2] - DecorationSize[2]

-----------------------------------------------------------------------------
(* Properties of the outputs *)

\* an enter, leave or done event has been processed completely, the surface
\* overlaps an output, and the surface can take a buffer scale
ScaleEventProcessed ==
  /\ hist.lastEvent \in {"enter", "leave", "done"}
  /\ sched.phase = "running" /\ sched.pc = "idle"
  /\ hist.overlap # {}
  /\ win.canSetBufferScale

\* C7: after a surface enter or leave event or an output done event has been
\* processed, while the surface overlaps at least one output, the buffer scale
\* in use is the largest scale of the outputs the surface overlaps.
C7_ScaleIsMaxOfOverlapped ==
  ScaleEventProcessed => win.m_scale = Max({wlout[o].scale : o \in hist.overlap})

\* the surface has left a removed output of scale 2, which is still recorded
\* in m_surfaceOutputs, and keeps scale 2 on an output of scale 1
C7_StaleOutputScale ==
  /\ ScaleEventProcessed
  /\ hist.lastEvent = "leave"
  /\ \E o \in win.m_surfaceOutputs : wlout[o].stage = "gone" /\ o \notin hist.overlap
  /\ win.m_scale = 2
  /\ \A o \in hist.overlap : wlout[o].scale = 1

\* the two output maps hold what the events so far allow
OutputMapsInv ==
  /\ win.m_outputs \subseteq hist.doneSeen
  /\ win.m_outputs \cap win.m_outputsInPreparation = {}
  /\ \A o \in OutputNames :
       wlout[o].stage = "gone" => o \notin win.m_outputs \cup win.m_outputsInPreparation

\* a done event keeps a ready output ready, a remove event takes the output
\* out of both maps
OutputMapsStep ==
  /\ (hist'.lastEvent = "done" /\ hist'.lastOutput \in win.m_outputs)
       => hist'.lastOutput \in win'.m_outputs
  /\ (hist'.lastEvent = "done" /\ hist' # hist)
       => hist'.lastOutput \in win'.m_outputs
  /\ (hist'.lastEvent = "removed" /\ wlout' # wlout)
       => hist'.lastOutput \notin win'.m_outputs \cup win'.m_outputsInPreparation

\* C9: an output is in the ready map only after a done event of it; no name is
\* in the in-preparation map and in the ready map at once; a later done event
\* keeps the output in the ready map; a global remove deletes the name from
\* both maps.
C9_OutputMaps == []OutputMapsInv /\ [][OutputMapsStep]_vars

\* a hot-plugged output became ready, got a second done event and was removed
C9_OutputLifecycle ==
  /\ wlout[2].stage = "gone"
  /\ 2 \in hist.doneSeen
  /\ hist.lastEvent = "removed" /\ hist.lastOutput = 2
  /\ win.m_outputs = {1}

-----------------------------------------------------------------------------
(* Properties of the seat capabilities *)

SeatAttachedInv ==
  \A c \in Capabilities : (seat.inst[c] # 0) <=> HasCapability(seat.caps, c)

\* a capability whose bit did not change keeps its object, and nothing is
\* created or released for it; a gained capability gets one new object, a lost
\* one is released once
SeatStep ==
  \A c \in Capabilities :
    /\ (HasCapability(seat'.caps, c) <=> HasCapability(seat.caps, c)) =>
         /\ seat'.inst[c] = seat.inst[c]
         /\ seat'.created[c] = seat.created[c]
         /\ seat'.released[c] = seat.released[c]
    /\ (HasCapability(seat'.caps, c) /\ ~HasCapability(seat.caps, c)) =>
         /\ seat'.created[c] = seat.created[c] + 1
         /\ seat'.inst[c] = seat'.created[c]
         /\ seat'.handlers[c] = seat'.inst[c]
    /\ (~HasCapability(seat'.caps, c) /\ HasCapability(seat.caps, c)) =>
         seat'.released[c] = seat.released[c] + 1

\* C8: after every capability event the attached sub-processors (pointer,
\* keyboard, touch) are exactly those whose bit is set in the bitmask of that
\* event; a sub-processor whose bit did not change is neither created again nor
\* released.
C8_SeatReconciled == []SeatAttachedInv /\ [][SeatStep]_vars

\* after {pointer}, {pointer, keyboard}, {keyboard}: one pointer was created
\* and released, one keyboard was created and is attached
C8_PointerThenKeyboard ==
  /\ seat.events = 3
  /\ seat.caps = CAP_KEYBOARD
  /\ seat.created[CAP_POINTER] = 1 /\ seat.released[CAP_POINTER] = 1
  /\ seat.created[CAP_KEYBOARD] = 1 /\ seat.released[CAP_KEYBOARD] = 0
  /\ seat.inst[CAP_KEYBOARD] = 1 /\ seat.inst[CAP_POINTER] = 0

-----------------------------------------------------------------------------
(* Properties of the modes *)

\* index of the last mode event carrying the flag, 0 if there is none
LastEventWith(flag) ==
  LET I == {i \in 1..Len(outp.events) : HasFlag(outp.events[i].flags, flag)}
  IN  IF I = {} THEN 0 ELSE Max(I)

ModeInv ==
  /\ GetCurrentMode(outp) =
       IF LastEventWith(MODE_CURRENT) = 0 THEN "runtime_error"
       ELSE outp.events[LastEventWith(MODE_CURRENT)].mode
  /\ GetPreferredMode(outp) =
       IF LastEventWith(MODE_PREFERRED) = 0 THEN "runtime_error"
       ELSE outp.events[LastEventWith(MODE_PREFERRED)].mode

ModeStep ==
  (Len(outp'.events) > Len(outp.events)
     /\ ~HasFlag(outp'.events[Len(outp'.events)].flags, MODE_CURRENT))
    => GetCurrentMode(outp') = GetCurrentMode(outp)

\* C10: GetCurrentMode returns the mode of the last mode event that carried
\* the current flag, GetPreferredMode the mode of the last one that carried the
\* preferred flag (both fail while there is none); a mode event without the
\* current flag does not change what GetCurrentMode returns.
C10_ModesTracked == []ModeInv /\ [][ModeStep]_vars

\* a mode flagged current, then another mode flagged preferred only
C10_CurrentThenPreferred ==
  /\ Len(outp.events) = 2
  /\ outp.events[1].flags = MODE_CURRENT
  /\ outp.events[2].flags = MODE_PREFERRED
  /\ outp.events[2].mode # outp.events[1].mode
  /\ GetCurrentMode(outp) = outp.events[1].mode
  /\ GetPreferredMode(outp) = outp.events[2].mode

-----------------------------------------------------------------------------
(* Properties of the registry binding *)

\* C11: a global offered at version v, bound with the bounds [minVersion,
\* maxVersion], is bound at version min(maxVersion, v) if v >= minVersion; if
\* v < minVersion the bind fails with an error and nothing is bound.
C11_BindVersion ==
  conn.lastBind.bounds # <<>> =>
    IF conn.lastBind.offered >= conn.lastBind.bounds[1]
      THEN /\ ~conn.lastBind.thrown
           /\ conn.lastBind.version =
                IF conn.lastBind.bounds[2] <= conn.lastBind.offered
                  THEN conn.lastBind.bounds[2] ELSE conn.lastBind.offered
           /\ conn.lastBind.interface \in SingletonInterfaces =>
                conn.lastBind.after = conn.lastBind.version
           /\ conn.lastBind.interface \notin SingletonInterfaces =>
                conn.lastBind.after = conn.lastBind.before + 1
      ELSE /\ conn.lastBind.thrown
           /\ conn.phase = "failed" /\ conn.error = "version"
           /\ conn.lastBind.version = 0
           /\ conn.lastBind.after = conn.lastBind.before

\* after a seat was bound, an output offered at version 1 (below its minimum
\* of 2) has failed to bind
C11_OutputTooOld ==
  /\ conn.lastBind.interface = "wl_output"
  /\ conn.lastBind.offered = 1
  /\ conn.lastBind.thrown
  /\ conn.handed["wl_seat"] = 1
  /\ conn.target["wl_shell"] = 1

\* the interfaces registered without "required = false"
RequiredInterfaces == {"wl_compositor", "wl_shell", "wl_shm"}

\* C12: after the round trip of the singletons the binding has failed if and
\* only if a required interface is unbound; a missing optional interface
\* (data-device manager, subcompositor, xdg-shell, idle-inhibit, presentation)
\* is no failure.
C12_RequiredGlobals ==
  (conn.phase = "other" \/ conn.error = "missing") =>
    ((conn.phase = "failed") <=> (\E i \in RequiredInterfaces : conn.target[i] = 0))

\* the startup went on with every optional interface missing
C12_OptionalMissing ==
  /\ conn.phase = "other"
  /\ \A i \in SingletonInterfaces \ RequiredInterfaces : conn.target[i] = 0

-----------------------------------------------------------------------------
(* Properties of the touch points *)

UsedPointers(points) == {points[id] : id \in DOMAIN points}

\* no two live points share a pointer number, every number is below
\* TOUCH_MAX_POINTERS, and the last touch-down got the lowest number that was
\* free, or was dropped because none was
TouchPointsInv ==
  /\ \A i, j \in DOMAIN touch.m_touchPoints :
       touch.m_touchPoints[i] = touch.m_touchPoints[j] => i = j
  /\ \A i \in DOMAIN touch.m_touchPoints :
       touch.m_touchPoints[i] \in 0..(TOUCH_MAX_POINTERS - 1)
  /\ touch.last.kind = "down" =>
       IF touch.last.sent = "none"
         THEN /\ touch.last.id \notin DOMAIN touch.m_touchPoints
              /\ UsedPointers(touch.m_touchPoints) = 0..(TOUCH_MAX_POINTERS - 1)
         ELSE /\ touch.last.id \in DOMAIN touch.m_touchPoints
              /\ touch.last.pointer = touch.m_touchPoints[touch.last.id]
              /\ \A p \in 0..(touch.last.pointer - 1) :
                   \E i \in DOMAIN touch.m_touchPoints \ {touch.last.id} :
                     touch.m_touchPoints[i] = p

\* a live point keeps its number; a point ends only with its touch-up or a
\* cancel; a touch-down starts at most the point of its id, with a number no
\* live point held
TouchPointsStep ==
  /\ \A i \in DOMAIN touch.m_touchPoints \cap DOMAIN touch'.m_touchPoints :
       touch'.m_touchPoints[i] = touch.m_touchPoints[i]
  /\ \A i \in DOMAIN touch.m_touchPoints \ DOMAIN touch'.m_touchPoints :
       \/ touch'.last.kind = "up" /\ touch'.last.id = i
       \/ touch'.last.kind = "cancel"
  /\ \A i \in DOMAIN touch'.m_touchPoints \ DOMAIN touch.m_touchPoints :
       /\ touch'.last.kind = "down" /\ touch'.last.id = i
       /\ touch'.m_touchPoints[i] \notin UsedPointers(touch.m_touchPoints)

\* C13: no two live touch points have the same slot number; a touch-down gets
\* the lowest slot number below TOUCH_MAX_POINTERS that no live point uses and
\* is dropped when there is none; a slot number is used again only after the
\* touch-up of the point that held it or after a cancel.
C13_TouchSlots == []TouchPointsInv /\ [][TouchPointsStep]_vars

\* two points are live, a third touch-down was dropped, the first point went
\* up, and the next touch-down got its number 0 again
C13_SlotReused ==
  /\ touch.events = 5
  /\ touch.last.kind = "down" /\ touch.last.pointer = 0
  /\ UsedPointers(touch.m_touchPoints) = {0, 1}
  /\ Cardinality(touch.down) = 3

-----------------------------------------------------------------------------
(* Properties of the keyboard *)

\* the last event was a key event that was converted and sent on
KeySent == kbd.last.kind = "key" /\ kbd.last.sent # NoEvent

\* the codepoint and the scancode reported for the last key event
ReportedAsLookedUp ==
  /\ kbd.last.utf32 =
       UnicodeCodepointForKeycode(kbd.m_keymap, kbd.mods, kbd.last.xkbCode)
  /\ kbd.last.sent.unicode =
       (IF kbd.last.utf32 > 65535 THEN 0 ELSE kbd.last.utf32)
  /\ kbd.last.sent.scancode =
       (IF kbd.last.wire[1] > 0 \/ kbd.last.wire[2] > 255 THEN 0
        ELSE kbd.last.wire[2])

\* C14: for every key event that is converted, the keymap lookup uses the
\* keycode wire scancode + 8, the reported codepoint is 0 when the codepoint
\* looked up exceeds 0xFFFF and is that codepoint otherwise, and the reported
\* scancode is 0 when the wire scancode exceeds 255 and is the wire scancode
\* otherwise. The sum is the sum of the numbers: the high half of the keycode
\* is the high half of the scancode plus the carry of the low halves.
C14_KeyConversion ==
  KeySent =>
    /\ kbd.last.xkbCode[2] = (kbd.last.wire[2] + 8) % 65536
    /\ kbd.last.xkbCode[1] = kbd.last.wire[1] + (kbd.last.wire[2] + 8) \div 65536
    /\ ReportedAsLookedUp

\* C14, amended: as before, with the keycode (wire scancode + 8) modulo 2^32
C14_KeyConversionModulo ==
  KeySent =>
    /\ kbd.last.xkbCode[2] = (kbd.last.wire[2] + 8) % 65536
    /\ kbd.last.xkbCode[1] =
         (kbd.last.wire[1] + (kbd.last.wire[2] + 8) \div 65536) % 65536
    /\ ReportedAsLookedUp

\* a key with scancode 256 whose codepoint is above 0xFFFF was sent on with
\* scancode 0 and codepoint 0
C14_BothDropped ==
  /\ KeySent
  /\ kbd.last.wire = <<0, 256>>
  /\ kbd.last.utf32 > 65535
  /\ kbd.last.sent.scancode = 0
  /\ kbd.last.sent.unicode = 0

\* the timer will run its callback when the timeout passes
TimerArmed == kbd.timer.running /\ ~kbd.timer.m_bStop

\* C15: the key repeat timer is armed only if the most recent key, modifiers
\* or keymap event was the press of a key that the keymap marks as repeating,
\* handled while the repeat interval was > 0: it is started by such a press
\* only and stopped by every release, modifier change and keymap change.
C15_ArmedOnlyAfterPress ==
  TimerArmed =>
    /\ kbd.last.kind = "key"
    /\ kbd.last.pressed
    /\ kbd.last.arming

\* the timer is armed although a keymap event was handled after the press
C15_ArmedAfterKeymapEvent ==
  /\ TimerArmed
  /\ kbd.last.kind = "keymap"
  /\ kbd.last.format = "no_keymap"

\* C16: once a modifiers handler or a keymap handler has stopped the timer
\* and returned, no repeat callback is running and no synthetic repeat is
\* sent until the next key press is handled.
C16_StoppedSynchronously ==
  kbd.stopped => (~kbd.timer.inCallback /\ ~kbd.rep.afterStop)

\* a repeat that carries the modifiers of the press was sent after the
\* modifiers handler had set other modifiers and returned
C16_RepeatWithOldModifiers ==
  /\ kbd.last.kind = "modifiers"
  /\ kbd.rep.seen
  /\ kbd.rep.afterStop
  /\ kbd.rep.mod # kbd.mods

\* C17: a keymap event closes the file descriptor, and after a keymap in a
\* format other than xkb_v1 every key event is dropped without an input event
\* until a keymap in the format xkb_v1 arrives.
C17_KeyboardDisabled ==
  /\ kbd.last.kind = "keymap" => kbd.last.fdClosed
  /\ (kbd.unsupported /\ kbd.last.kind = "key") => kbd.last.sent = NoEvent

\* a key press was converted with the keymap received before the keymap in
\* the other format, and armed the repeat timer
C17_KeySentAfterUnsupportedKeymap ==
  /\ kbd.unsupported
  /\ kbd.m_keymap # 0
  /\ KeySent
  /\ kbd.last.arming

-----------------------------------------------------------------------------
(* Properties of the window decorator *)

\* the last call of SetState computed a main surface size
MainSurfaceSizeReturned ==
  deco.last.op = "SetState" /\ deco.last.main # OutOfRange

\* C18: the main surface size computed for a size S and a state is S minus
\* the decoration size (2*BORDER_WIDTH, 2*BORDER_WIDTH+TOP_BAR_HEIGHT) when
\* the xdg shell is bound, the subcompositor is available and the state is
\* not fullscreen, and is S in every other case.
C18_MainSurfaceSize ==
  MainSurfaceSizeReturned =>
    deco.last.main =
      (IF /\ deco.shell = "zxdg_shell_v6"
          /\ win.m_subcompositor
          /\ STATE_FULLSCREEN \notin deco.last.state
         THEN <<deco.last.size[1] - 2 * BORDER_WIDTH,
                deco.last.size[2] - (2 * BORDER_WIDTH + TOP_BAR_HEIGHT)>>
         ELSE deco.last.size)

\* the decorations were subtracted although the shell surface is a wl_shell one
C18_SubtractedUnderWlShell ==
  /\ MainSurfaceSizeReturned
  /\ deco.shell = "wl_shell"
  /\ deco.last.main # deco.last.size

\* C19: for the size S and the state of every call, CalculateMainSurfaceSize
\* returns a size M, and CalculateFullSurfaceSize(M, state) is S; also for a
\* size S smaller than the decoration size.
C19_RoundTrip ==
  deco.last.op = "SetState" =>
    \E m \in {CalculateMainSurfaceSize(Bundle, deco.last.size, deco.last.state)} :
      /\ m # OutOfRange
      /\ CalculateFullSurfaceSize(Bundle, m, deco.last.state) = deco.last.size

\* SetState was left by the exception for a size below the decoration size
C19_ThrownBelowDecorationSize ==
  /\ deco.last.op = "SetState"
  /\ deco.last.effect = "thrown"
  /\ deco.last.size[1] < DecorationSize[1]
  /\ deco.last.size[2] < DecorationSize[2]

\* what differs between the last call of SetState and the decorator before it
SizeOrScaleChanged ==
  \/ deco.last.main # deco.last.before.size
  \/ deco.last.scale # deco.last.before.scale
ActiveChanged ==
  StateHasWindowDecorations(Bundle, deco.last.state)
    # StateHasWindowDecorations(Bundle, deco.last.before.state)

\* C20: SetState resets (reallocates) the decoration buffers only when the
\* content size, the scale or the decoration-active flag changes; when only
\* other state bits change and the decorations are active it repaints and
\* leaves the buffers; when size, scale and state are unchanged it does
\* nothing.
C20_SetStateEffect ==
  MainSurfaceSizeReturned =>
    /\ deco.last.effect = "Reset" => (SizeOrScaleChanged \/ ActiveChanged)
    /\ (/\ ~SizeOrScaleChanged
        /\ ~ActiveChanged
        /\ deco.last.state # deco.last.before.state
        /\ StateHasWindowDecorations(Bundle, deco.last.state))
         => (deco.last.effect = "Repaint"
             /\ deco.buffers = deco.last.before.buffers)
    /\ (~SizeOrScaleChanged /\ deco.last.state = deco.last.before.state)
         => (/\ deco.last.effect = "return"
             /\ deco.buffers = deco.last.before.buffers
             /\ deco.m_windowState = deco.last.before.state)

\* the window was maximized at the same size and scale: a repaint into the
\* buffers allocated before
C20_RepaintedOnly ==
  /\ deco.last.effect = "Repaint"
  /\ deco.buffers = "allocated"
  /\ deco.last.before.buffers = "allocated"
  /\ STATE_MAXIMIZED \in deco.last.state
  /\ STATE_MAXIMIZED \notin deco.last.before.state

-----------------------------------------------------------------------------
(* Properties of the decoration buffers *)

\* C21: every decoration buffer that was committed and for which the
\* compositor has not sent a release for each of its commits is a member of
\* m_pendingBuffers, and no buffer loses its last reference (is destroyed)
\* while the compositor holds it.
C21_HeldBuffersPending ==
  /\ \A i \in 1..MaxBuffers : deco.held[i] > 0 => i \in deco.m_pendingBuffers
  /\ ~deco.destroyedHeld

\* a Reset replaced a buffer that the compositor held and that was no longer
\* in m_pendingBuffers
C21_DestroyedWhileHeld ==
  /\ deco.destroyedHeld
  /\ deco.last.effect = "Reset"
  /\ deco.current > 1

\* C22: a decoration buffer is painted and committed again only after the
\* compositor has released its previous commit: no call of SetState paints
\* and commits a buffer that is in m_pendingBuffers.
C22_ReuseAfterRelease ==
  deco.last.committed # 0 => ~deco.last.wasPending

\* a change of the state bits alone repainted the buffer committed before
\* while it was pending
C22_RepaintedPendingBuffer ==
  /\ deco.last.effect = "Repaint"
  /\ deco.last.committed # 0
  /\ deco.last.wasPending
  /\ deco.held[deco.last.committed] > 1

-----------------------------------------------------------------------------
(* Properties of the clicks on the decorations and of the buttons *)

\* C23: a left click on a border surface leads to exactly one action: a
\* resize with the matching edge when the position is within
\* RESIZE_MAX_CORNER_DISTANCE of an edge or corner of the surface clicked,
\* otherwise the action of the button that contains the position, otherwise
\* a window move; a right click opens the context menu on the top bar only
\* and does nothing on the other border surfaces.
C23_ClickClassified ==
  deco.click.surface # "none" =>
    deco.click.action =
      SeatClickActionOnSurface(
        [m_mainSurfaceSize |-> deco.click.main, m_buttons |-> deco.click.buttons],
        deco.click.surface, deco.click.button, deco.click.position)

\* a left click inside the close button, further than the corner distance
\* from every edge of the top surface, has started a resize
C23_ResizeInsideCloseButton ==
  /\ deco.click.surface = "SURFACE_TOP"
  /\ deco.click.button = "BTN_LEFT"
  /\ deco.click.action = <<"OnWindowResize", "right">>
  /\ deco.click.position[1] > RESIZE_MAX_CORNER_DISTANCE
  /\ deco.click.position[2] > RESIZE_MAX_CORNER_DISTANCE
  /\ deco.click.position[1] <
       SurfaceSize("SURFACE_TOP", deco.click.main)[1] - RESIZE_MAX_CORNER_DISTANCE
  /\ ButtonHit(deco.click.buttons[3], deco.click.position)

\* C24: the minimize, maximize and close button are laid out from right to
\* left, and for every width of the top bar, the widths too narrow for the
\* three of them included, no two of their rectangles overlap.
C24_ButtonsDisjoint ==
  \A i, j \in DOMAIN deco.m_buttons :
     i < j => deco.m_buttons[i] + BUTTON_SIZE <= deco.m_buttons[j]

\* the top bar is too narrow: the minimize button is clamped to the left end
\* and the maximize button begins inside it
C24_ButtonsOverlap ==
  /\ deco.m_buttons # <<>>
  /\ deco.m_buttons[1] = 0
  /\ deco.m_buttons[2] < BUTTON_SIZE
  /\ deco.click.surface = "SURFACE_TOP"
  /\ deco.click.action = <<"onClick", "minimize">>
  /\ ButtonHit(deco.click.buttons[2], deco.click.position)

-----------------------------------------------------------------------------
(* Properties of the event pump *)

\* C25: after Stop() has written to the cancellation pipe the pump thread
\* eventually leaves its loop, and it reads no event after the poll that
\* returned the cancellation, also when the socket was readable at that
\* poll; the display socket stays open while the thread runs.
C25_CancelledPumpExits ==
  /\ [](~pump.readAfterCancel)
  /\ [](PumpAlive => pump.m_connection)
  /\ (pump.cancelled /\ PumpAlive) ~> (pump.pc = "exited")

\* Stop() has written to the pipe and waits for the thread, which waits in a
\* callback for the main thread
C25_StopWaitsForBlockedPump ==
  /\ pump.cancelled
  /\ pump.main \in {"join_create", "join_destroy"}
  /\ pump.pc = "blocked"

\* the parts of C25 that are about poll(): no event is read after a poll that
\* returned the cancellation, and the socket is open while the thread runs
PumpCancelSafety ==
  /\ ~pump.readAfterCancel
  /\ PumpAlive => pump.m_connection
  /\ pump.pc = "exited" => pump.sawCancel

\* C26: protocol callbacks are dispatched by at most one thread at any time:
\* by the calling thread in its roundtrips until CreateNewWindow starts the
\* event pump, then by the pump thread only until DestroyWindowSystem has
\* stopped it, for every sequence of InitWindowSystem, CreateNewWindow,
\* DestroyWindow and DestroyWindowSystem.
C26_OneDispatchingThread ==
  /\ pump.main \in {"init_roundtrip", "create_roundtrip"} => ~PumpAlive
  /\ pump.main = "join_create" => ~pump.m_surface

\* the calling thread is in the roundtrip of a second CreateNewWindow while
\* the pump thread is in dispatch_pending
C26_TwoThreadsDispatch ==
  /\ pump.main = "create_roundtrip"
  /\ pump.pc \in {"dispatch", "blocked"}

-----------------------------------------------------------------------------
(* Properties of the configure events in the running window *)

\* C27: a configure with a zero size at run time is not an error: when the
\* configured state is fullscreen the configured size stays as it is,
\* otherwise the size of the stored windowed resolution becomes the size of
\* the content, and the configured size is that size with the decorations
\* of the configured state around it.
C27_ZeroSizeResolved ==
  LET c == hist.lastConfigure
  IN  (c.serial > 0 /\ IsZero(c.size)) =>
        /\ c.surfaceAfter # OutOfRange
        /\ c.configuredAfter # OutOfRange
        /\ IF STATE_FULLSCREEN \in c.state
             THEN c.configuredAfter = c.configuredBefore
             ELSE /\ c.surfaceAfter = c.windowedBefore
                  /\ c.configuredAfter =
                       IF win.m_subcompositor
                         THEN <<c.windowedBefore[1] + DecorationSize[1],
                                c.windowedBefore[2] + DecorationSize[2]>>
                         ELSE c.windowedBefore

\* a configure with a zero size and without the fullscreen state has been
\* handled in a window with decorations
C27_ZeroSizeWindowed ==
  /\ hist.lastConfigure.serial > 0
  /\ IsZero(hist.lastConfigure.size)
  /\ STATE_FULLSCREEN \notin hist.lastConfigure.state
  /\ hist.lastConfigure.surfaceAfter = hist.lastConfigure.windowedBefore
  /\ hist.lastConfigure.configuredAfter # hist.lastConfigure.surfaceAfter
  /\ hist.lastEvent = "configure"

\* C28: after a fullscreen request that names an output, the refresh rate
\* and the output recorded as current, and with it the output name of a
\* resolution added afterwards, come from the outputs the surface has
\* entered and from the configure events, not from the output the request
\* named: while the surface is on some output, m_currentOutput is one of the
\* outputs it is on and m_fRefreshRate is the refresh rate of one of them.
C28_OutputFromEnterEvents ==
  (sched.phase = "running" /\ win.m_bFullScreen /\ win.m_surfaceOutputs # {}) =>
     /\ win.m_currentOutput \in win.m_surfaceOutputs \cup {NoOutput}
     /\ win.m_fRefreshRate \in {RefreshOf(o) : o \in win.m_surfaceOutputs}

\* the request named output 1, the surface is on output 2 only: output 1 is
\* recorded as current, and a resolution with the refresh rate of output 2
\* has been added under the name of output 1
C28_RequestedOutputRecorded ==
  /\ win.m_bFullScreen
  /\ win.m_surfaceOutputs = {2}
  /\ win.m_currentOutput = 1
  /\ win.m_fRefreshRate = RefreshOf(2)
  /\ \E i \in 2..Len(disp.list) :
        disp.list[i].out = 1 /\ disp.list[i].rr = RefreshOf(2)

\* C29: when the buffer size m_nWidth x m_nHeight has changed, the EGL window
\* is resized to it before the next buffer swap: whenever SetFullScreen of
\* the EGL window system has returned, the size attached to the EGL window
\* is the buffer size.
C29_EglSizeAfterSetFullScreen ==
  hist.lastEvent \in {"switch", "request"} => egl = BufferSize

\* the surface has entered an output of scale 2, the buffer size was doubled
\* and the switch that followed has returned without a resize
C29_EglSizeNotFollowed ==
  /\ hist.lastEvent = "switch"
  /\ hist.lastCall.origin = "internal"
  /\ win.m_scale = 2
  /\ BufferSize = Scaled(win.m_surfaceSize, 2)
  /\ egl = win.m_surfaceSize

\* C30: configure handling leads to no endless cycle of set_fullscreen
\* requests and configures: when the compositor answers every set_fullscreen
\* with a configure and the application requests no resolution, the
\* requests end; the switch for the answer to a request sends no further
\* request, so no MaxAnswers requests follow one another, each sent for the
\* answer to the one before.
C30_FullScreenRequestsEnd == hist.chain < MaxAnswers

\* MaxAnswers requests have been sent in a row, the last one for the default
\* output or for output 1, in turn
C30_RequestsInTurn ==
  /\ hist.chain = MaxAnswers
  /\ hist.lastEvent = "switch"
  /\ hist.lastCall.origin = "configure"
  /\ hist.lastCall.sent
  /\ shell.lastRequest = [output |-> 1, kind |-> "set_fullscreen"]
  /\ win.m_surfaceOutputs = {1}

-----------------------------------------------------------------------------
(* Properties of the graphics context lock *)

\* C31: whenever the event thread is in the blocking SetVideoResolution, called
\* from ResetSurfaceSize or from OnOutputDone, it has released the graphics
\* context lock before, so that the main thread can take the lock in
\* SetFullScreen: in no state the event thread waits for the main thread
\* while it holds the lock the main thread waits for.
C31_LockReleasedBeforeSwitch ==
  sched.pc = "SetVideoResolution" => sched.lock = "none"

\* the done event of a new output has arrived while the window is fullscreen:
\* the event thread waits for the switch and holds the lock
C31_WaitsHoldingLock ==
  /\ sched.pc = "SetVideoResolution"
  /\ sched.lock = "event"
  /\ hist.lastEvent = "done"
  /\ win.m_bFullScreen
  /\ hist.lastOutput \in win.m_outputs

-----------------------------------------------------------------------------
(* Properties of the calls of SetDisplay *)

\* C32: the event pump is started by a SetDisplay call with a display when no
\* pump exists, and only SetDisplay(nullptr) stops it: a SetDisplay call with
\* a display while the pump runs leaves the pump running.
C32_PumpStartStop ==
  [][/\ (~pump.g_WlMessagePump /\ pump'.g_WlMessagePump)
          => (pump'.m_surface /\ pump'.pc = "loop")
     /\ (~pump.cancelled /\ pump'.cancelled) => pump'.main = "join_destroy"]_vars

\* CreateNewWindow for a second window has called SetDisplay with the display:
\* the pump was told to stop and the caller waits for the thread
C32_StoppedByCreateNewWindow ==
  /\ pump.main = "join_create"
  /\ pump.cancelled
  /\ pump.g_WlMessagePump
  /\ pump.m_surface
  /\ PumpAlive

-----------------------------------------------------------------------------
(* Properties of the event queue *)

\* the event the innermost call of MessagePump has taken and not yet handed on
HeldEvent ==
  IF queue.stack # <<>> /\ Innermost(queue).pc = "event"
    THEN <<Innermost(queue).event>> ELSE <<>>

\* C33: with one thread that pushes and MessagePump that drains, also when an
\* event handler calls MessagePump again, every event pushed is handed to
\* the application exactly once (it is in the queue, taken, or handed on,
\* and in one of them only), the events leave the queue in the order of the
\* pushes, and no event handler is called or runs in the innermost call
\* while the main thread holds the lock of the queue.
C33_EachEventOnceInOrder ==
  /\ queue.handed \o HeldEvent \o queue.m_queue
       = [i \in 1..(queue.next - 1) |-> i]
  /\ queue.taken = [i \in 1..Len(queue.taken) |-> i]
  /\ queue.lock = "main" =>
       (queue.stack # <<>> /\ Innermost(queue).pc = "locked")
  /\ \A i \in 1..Len(queue.stack) :
       i < Len(queue.stack) => queue.stack[i].pc = "handler"

\* the handler of event 1 has called MessagePump, which has handed event 2 to
\* the application, while event 3 is in the queue
C33_HandedFromInnerCall ==
  /\ Len(queue.stack) = 2
  /\ queue.stack[1] = [pc |-> "handler", event |-> 1]
  /\ queue.stack[2] = [pc |-> "handler", event |-> 2]
  /\ queue.handed = <<1, 2>>
  /\ queue.m_queue = <<3>>

-----------------------------------------------------------------------------
(* Properties of the keymap handler *)

\* C34: after any sequence of digital key presses and releases,
\* m_lastButtonPress is 0 or the id of a button in m_pressedButtons, so it
\* is 0 when no button is pressed and the "invalid state" branch of
\* ProcessButtonRelease is never taken; m_pressedButtons holds no button
\* twice.
C34_LastButtonPressed ==
  /\ buttons.m_lastButtonPress = 0
       \/ IsPressed(buttons, buttons.m_lastButtonPress)
  /\ buttons.m_pressedButtons = <<>> => buttons.m_lastButtonPress = 0
  /\ ~buttons.invalid
  /\ \A i, j \in 1..Len(buttons.m_pressedButtons) :
       buttons.m_pressedButtons[i] = buttons.m_pressedButtons[j] => i = j

\* button 1 was pressed, then button 2, which became the last button
\* pressed, and button 1 has been released
C34_OtherButtonReleased ==
  /\ buttons.op = [keyId |-> 1, bPressed |-> FALSE]
  /\ buttons.m_pressedButtons = <<2>>
  /\ buttons.m_lastButtonPress = 2

-----------------------------------------------------------------------------
(* Properties of the requests of the xdg shell surface *)

\* C35: with the xdg shell, a call of SetFullScreen of the shell surface made
\* while no set_fullscreen request is outstanding (at the start, or after
\* SetWindowed) sends set_fullscreen, also for the default (null) output;
\* the request is left out only when fullscreen on the same output was
\* requested before.
C35_SetFullScreenSent ==
  hist.shellCall.called =>
    /\ ~hist.shellCall.outstanding => hist.shellCall.sent
    /\ ~hist.shellCall.sent =>
         (hist.shellCall.outstanding
          /\ hist.shellCall.before = hist.shellCall.output)

\* the application switched to a fullscreen resolution of the default output
\* while no request was outstanding, and nothing was sent
C35_DefaultOutputNotRequested ==
  /\ hist.lastEvent = "request"
  /\ hist.lastCall.fullScreen
  /\ hist.lastCall.origin = "external"
  /\ hist.shellCall = [called |-> TRUE, output |-> NoOutput,
                       outstanding |-> FALSE, before |-> NoOutput,
                       sent |-> FALSE]
  /\ shell.lastRequest.kind # "set_fullscreen"

-----------------------------------------------------------------------------
(* Properties of the origin of a resolution switch *)

\* C36: a SetFullScreen call is taken as started by a configure, and
\* acknowledges the serial of the pending configure, only if it is the call
\* ResetSurfaceSize has delegated for that configure; a resolution switch
\* of the application that the main thread runs after ResetSurfaceSize has
\* marked the resolution and before the delegated switch runs is taken as
\* external, in every interleaving.
C36_RequestIsExternal ==
  hist.lastEvent = "request" =>
    /\ hist.lastCall.origin = "external"
    /\ ~hist.lastAck.fresh

\* the application has switched to the resolution ResetSurfaceSize had marked
\* for a configure whose delegated switch has not run yet: the call was taken
\* as started by the configure and has acknowledged its serial
C36_RequestTakenAsConfigure ==
  /\ hist.lastEvent = "request"
  /\ sched.pc = "SetVideoResolution"
  /\ hist.lastCall.origin = "configure"
  /\ hist.lastAck.fresh
  /\ hist.lastAck.serial = win.m_currentConfigureSerial
  /\ hist.lastConfigure.changed

-----------------------------------------------------------------------------
(* Properties of the outputs the surface is on *)

\* C37: after any sequence of output added, done and removed events and of
\* surface enter and leave events, every output in m_surfaceOutputs is an
\* output of the ready map m_outputs, so that no removed output takes part in
\* the buffer scale, the refresh rate or the DPI.
C37_SurfaceOutputsReady ==
  win.m_surfaceOutputs \subseteq win.m_outputs

\* an output the surface is on has been removed and is still in
\* m_surfaceOutputs, and the scale in use is the scale of that output alone
C37_RemovedOutputKept ==
  /\ hist.lastEvent = "removed"
  /\ hist.lastOutput \in win.m_surfaceOutputs
  /\ hist.lastOutput \notin win.m_outputs
  /\ wlout[hist.lastOutput].stage = "gone"
  /\ win.m_scale = wlout[hist.lastOutput].scale
  /\ \A o \in win.m_surfaceOutputs \cap win.m_outputs :
       wlout[o].scale < win.m_scale

-----------------------------------------------------------------------------
(* Properties of the buffer size *)

\* C38: in every state from the end of CreateNewWindow on, the buffer size is
\* the content size times the buffer scale (m_nWidth = m_surfaceSize.Width() *
\* m_scale, m_nHeight = m_surfaceSize.Height() * m_scale), also when the window
\* starts fullscreen on an output with a scale above 1.
C38_BufferIsContentTimesScale ==
  sched.phase = "running" =>
    <<win.m_nWidth, win.m_nHeight>> = Scaled(win.m_surfaceSize, win.m_scale)


\* the window has started fullscreen on output 1 with scale 2 and the initial
\* configure carried no size: the buffer has the size of the content
C38_ScaleSetAfterSize ==
  /\ sched.phase = "running"
  /\ hist.lastEvent = "create"
  /\ shell.lastRequest = [kind |-> "set_fullscreen", output |-> 1]
  /\ win.m_scale = 2
  /\ wlout[1].scale = 2
  /\ IsZero(hist.announcedSize)
  /\ <<win.m_nWidth, win.m_nHeight>> = win.m_surfaceSize
  /\ ~IsZero(win.m_surfaceSize)

-----------------------------------------------------------------------------
(* Properties of the resize cursor *)

\* the resize edge of the last click, "none" when it started no resize
ClickEdge ==
  IF deco.click.action[1] = "OnWindowResize" THEN deco.click.action[2]
  ELSE "none"

\* C39: for every border surface and every position on it, the resize edge a
\* left click at the position starts (HandleSeatClick) is the edge whose
\* resize cursor is shown at the position (UpdateSeatCursor): both come from
\* the same surface size.
C39_ClickEdgeIsCursorEdge ==
  deco.click.button = "BTN_LEFT" => ClickEdge = deco.click.cursorEdge

\* a left click in the top bar where the default cursor is shown has started
\* a resize at the right edge
C39_ResizeUnderDefaultCursor ==
  /\ deco.click.button = "BTN_LEFT"
  /\ deco.click.surface = "SURFACE_TOP"
  /\ deco.click.cursorEdge = "none"
  /\ deco.click.action = <<"OnWindowResize", "right">>

-----------------------------------------------------------------------------
(* Properties of the latency average *)

RECURSIVE PresentedLatencySum(_)
PresentedLatencySum(list) ==
  IF list = <<>> THEN 0
  ELSE (IF Head(list).presented THEN Head(list).latency ELSE 0)
       + PresentedLatencySum(Tail(list))

\* C40: for any sequence of frame submissions and presented and discarded
\* events, the moving average of the latency times
\* LATENCY_MOVING_AVERAGE_SIZE is the sum of the latencies measured for the
\* presented submissions in the list, and the entry a presented event drops
\* from the front of the list (only when the list holds more than
\* LATENCY_MOVING_AVERAGE_SIZE entries) has been presented itself.
C40_AverageIsSumOfPresented ==
  /\ frames.average = PresentedLatencySum(frames.m_surfaceSubmissions)
  /\ frames.dropped.presented
  /\ frames.dropped.id # 0 =>
       Len(frames.m_surfaceSubmissions) >= LATENCY_MOVING_AVERAGE_SIZE

\* a presented event for a later frame has dropped the first frame, which
\* waits for its feedback, and the average is not the sum of the latencies of
\* the presented frames in the list
C40_PendingFrameDropped ==
  /\ frames.op = "presented"
  /\ frames.dropped = [id |-> 1, presented |-> FALSE]
  /\ frames.average # PresentedLatencySum(frames.m_surfaceSubmissions)
  /\ \A i \in 1..Len(frames.m_surfaceSubmissions) :
       frames.m_surfaceSubmissions[i].presented

=============================================================================
